---------------------------- MODULE Spec2Model ----------------------------
(***************************************************************************)
(* A model of the hybrid retrieval-and-context-assembly engine of the      *)
(* journal application: the safety gate (llm/safety.rs), the rank fusion   *)
(* engine (db/search.rs), the context budget fitter (llm/chat.rs) and the  *)
(* chat_stream command (lib.rs).                                           *)
(*                                                                         *)
(* A Rust String is modelled as a sequence of symbols.  Text that the      *)
(* safety gate inspects is a sequence of one-character strings, so that    *)
(* lower-casing and word boundaries are computed character by character.   *)
(* Option<T> is modelled as a sequence of length 0 (None) or 1 (Some).     *)
(***************************************************************************)
EXTENDS Integers, Sequences, FiniteSets, TLC

VARIABLES
    \* ---- safety gate (llm/safety.rs)
    text,            \* the message handed to check_with_emotions
    emotions,        \* Option<&[EmotionPrediction]>
    safety_result,   \* Option<SafetyResult>: the verdict, once computed
    full_response,   \* the response handed to augment_response
    augmented,       \* Option<record>: one augment_response call and what chat_stream emits for it
    \* ---- rank fusion (db/search.rs)
    fts_results,     \* the lexical hits handed to reciprocal_rank_fusion, best first
    vec_results,     \* the vector hits handed to reciprocal_rank_fusion, nearest first
    limit,           \* the limit of the call
    combined,        \* the results of the calls of reciprocal_rank_fusion made so far
    \* ---- search (db/search.rs) over the journal store and its full-text index
    archived,        \* the ids of the entries whose is_archived flag is set
    fts_index,       \* the rows the full-text index matches for the query, in bm25 order
    query,           \* the query string
    include_archived,
    hybrid_out,      \* Option<Result>: what hybrid_search(query, None, limit) returned
    fts_only_out,    \* Option<Result>: what fts_only_search(query, limit) returned
    \* ---- context budget fitter (llm/chat.rs)
    rag_context,     \* Option<&[HybridSearchResult]> handed to fit_context_budget
    chat_history,    \* Option<&[DbChatMessage]> handed to fit_context_budget
    fitted,          \* Option<(fitted_rag, fitted_history)>
    \* ---- the chat_stream command (lib.rs)
    chat_pc,         \* where the invocation of chat_stream stands
    chat_in,         \* its arguments: message, journal_id
    chat,            \* its local variables and what it has called so far
    events,          \* the events emitted to the front end, in order
    chat_messages,   \* the rows chat_stream inserted into chat_messages
    \* ---- the tables (db/journals.rs, db/vectors.rs) and the calls made on them
    store,           \* the tables of the database
    created,         \* the number of entries created so far
    store_out,       \* Option<record>: the last call observed and what it returned
    \* ---- the async tasks, the connection mutex (db/mod.rs) and the model cache (ml/mod.rs)
    tasks,           \* per task: its program, its position, its status and what it returned
    conn_lock,       \* Option<task>: the holder of the guard of DbPool::get
    model_lock,      \* per model: the holders of the read guards and of the write guard
    model_cache,     \* per model: Option<Arc<Model>>, the handle held as the number of its load
    loads            \* per model: the number of loads that succeeded

safetyVars == <<text, emotions, safety_result, full_response, augmented>>

fusionVars == <<fts_results, vec_results, limit, combined>>

searchVars == <<archived, fts_index, query, include_archived, hybrid_out, fts_only_out>>

budgetVars == <<rag_context, chat_history, fitted>>

chatVars == <<chat_pc, chat_in, chat, events, chat_messages>>

storeVars == <<store, created, store_out>>

taskVars == <<tasks, conn_lock, model_lock, model_cache, loads>>

vars == <<safetyVars, fusionVars, searchVars, budgetVars, chatVars, storeVars, taskVars>>

None == <<>>

Some(x) == <<x>>

IsSome(o) == Len(o) = 1

Unwrap(o) == o[1]

\* The tasks while another component is exercised.
TasksIdle ==
    /\ tasks = <<>> /\ conn_lock = None
    /\ model_lock = <<>> /\ model_cache = <<>> /\ loads = <<>>

\* The tables while another component is exercised.
StoreIdle == store = <<>> /\ created = 0 /\ store_out = None

\* The chat variables while another component is exercised.
ChatIdle ==
    /\ chat_pc = "idle" /\ chat_in = <<>> /\ chat = <<>>
    /\ events = <<>> /\ chat_messages = <<>>

\* The budget variables while another component is exercised.
BudgetIdle == rag_context = None /\ chat_history = None /\ fitted = None

\* The search variables while another component is exercised.
SearchIdle ==
    /\ archived = {} /\ fts_index = <<>> /\ query = <<>>
    /\ include_archived = FALSE /\ hybrid_out = None /\ fts_only_out = None

(***************************************************************************)
(*                       SAFETY GATE  (llm/safety.rs)                      *)
(***************************************************************************)

\* The crisis regexes.  Every pattern is \b<literal>\b; a pattern is given as
\* the set of literals its regex denotes (self[- ]?harm(ing)? denotes six).
CRISIS_KEYWORDS ==
    << { <<"s","u","i","c","i","d","e">> },
       { <<"k","i","l","l"," ","m","y","s","e","l","f">> },
       { <<"e","n","d"," ","m","y"," ","l","i","f","e">> },
       { <<"w","a","n","t"," ","t","o"," ","d","i","e">> },
       { <<"s","e","l","f","h","a","r","m">>,
         <<"s","e","l","f","-","h","a","r","m">>,
         <<"s","e","l","f"," ","h","a","r","m">>,
         <<"s","e","l","f","h","a","r","m","i","n","g">>,
         <<"s","e","l","f","-","h","a","r","m","i","n","g">>,
         <<"s","e","l","f"," ","h","a","r","m","i","n","g">> },
       { <<"h","u","r","t"," ","m","y","s","e","l","f">> },
       { <<"n","o"," ","r","e","a","s","o","n"," ","t","o"," ","l","i","v","e">> },
       { <<"e","n","d","i","n","g"," ","i","t"," ","a","l","l">> },
       { <<"t","a","k","e"," ","m","y"," ","o","w","n"," ","l","i","f","e">> },
       { <<"c","u","t"," ","m","y","s","e","l","f">> },
       { <<"k","i","l","l"," ","t","h","e","m","s","e","l","v","e","s">> },
       { <<"s","u","i","c","i","d","a","l">> } >>

\* The distress regexes, in the same representation.
DISTRESS_KEYWORDS ==
    << { <<"h","o","p","e","l","e","s","s">> },
       { <<"w","o","r","t","h","l","e","s","s">> },
       { <<"c","a","n","'","t"," ","g","o"," ","o","n">> },
       { <<"w","a","n","t"," ","t","o"," ","d","i","s","a","p","p","e","a","r">> },
       { <<"n","o"," ","p","o","i","n","t">> },
       { <<"g","i","v","e"," ","u","p">> } >>

Upper == <<"A","B","C","D","E","F","G","H","I","J","K","L","M","N","O","P","Q","R","S","T","U","V","W","X","Y","Z">>

Lower == <<"a","b","c","d","e","f","g","h","i","j","k","l","m","n","o","p","q","r","s","t","u","v","w","x","y","z">>

Digits == {"0","1","2","3","4","5","6","7","8","9"}

\* The lower-case letter of each upper-case letter.
UpperToLower ==
    [c \in {Upper[i] : i \in 1..Len(Upper)} |->
        Lower[CHOOSE i \in 1..Len(Upper) : Upper[i] = c]]

\* char::to_lowercase on one character of the modelled alphabet.
ToLowerChar(c) ==
    IF c \in DOMAIN UpperToLower THEN UpperToLower[c] ELSE c

\* A lower-casing that was forgotten: the text is matched as typed.
to_lowercase_identity(s) == s

\* str::to_lowercase.
to_lowercase(s) == [i \in 1..Len(s) |-> ToLowerChar(s[i])]

\* The regex crate's \w on the modelled alphabet.
IsWordChar(c) ==
    \/ \E i \in 1..Len(Lower) : c = Lower[i] \/ c = Upper[i]
    \/ c \in Digits
    \/ c = "_"

\* \b at the gap before position i of s (i in 1..Len(s)+1).
WordBoundary(s, i) ==
    LET before == i > 1 /\ IsWordChar(s[i - 1])
        after  == i <= Len(s) /\ IsWordChar(s[i])
    IN  before # after

\* \b<lit>\b matches s with the literal starting at position i.
LiteralMatchesAt(lit, s, i) ==
    /\ i + Len(lit) - 1 <= Len(s)
    /\ \A k \in 1..Len(lit) : s[i + k - 1] = lit[k]
    /\ WordBoundary(s, i)
    /\ WordBoundary(s, i + Len(lit))

\* Regex::is_match for one pattern.
PatternMatches(pattern, s) ==
    \E lit \in pattern : \E i \in 1..Len(s) : LiteralMatchesAt(lit, s, i)

\* RegexSet::is_match: some pattern of the set matches somewhere in s.
is_match(patterns, s) ==
    \E p \in 1..Len(patterns) : PatternMatches(patterns[p], s)

\* The four fixed texts of safety.rs, each held as one opaque piece.
CRISIS_INTERVENTION ==
    << "I'm concerned about what you've shared. Your wellbeing matters. [crisis lines] A trained counselor is available 24/7." >>

DISTRESS_MESSAGE ==
    << "I hear that you're going through a difficult time. Your feelings are valid." >>

EMOTION_DISTRESS_MESSAGE ==
    << "I notice you might be going through a difficult time. Remember, it's okay to feel this way, and you don't have to face it alone." >>

SUPPORT_RESOURCES ==
    << "---", "\n", "If you'd like to talk to someone, support is available: [988 lifeline, crisis text line]" >>

\* The labels matched at safety.rs:88-91.
RISK_EMOTIONS ==
    { <<"g","r","i","e","f">>,
      <<"f","e","a","r">>,
      <<"s","a","d","n","e","s","s">>,
      <<"n","e","r","v","o","u","s","n","e","s","s">>,
      <<"d","i","s","a","p","p","o","i","n","t","m","e","n","t">> }

\* The threshold 0.5 of safety.rs:92; scores are held in hundredths.
RISK_THRESHOLD == 50

\* A threshold test that also fires at exactly 0.5.
IsHighRiskInclusive(e) ==
    /\ to_lowercase(e.label) \in RISK_EMOTIONS
    /\ e.score >= RISK_THRESHOLD

\* The closure of safety.rs:87-93.
IsHighRisk(e) ==
    /\ to_lowercase(e.label) \in RISK_EMOTIONS
    /\ e.score > RISK_THRESHOLD

CrisisResult ==
    [safe |-> FALSE, level |-> "Crisis", intervention |-> Some(CRISIS_INTERVENTION)]

DistressResult ==
    [safe |-> TRUE, level |-> "Distress", intervention |-> Some(DISTRESS_MESSAGE)]

EmotionDistressResult ==
    [safe |-> TRUE, level |-> "Distress", intervention |-> Some(EMOTION_DISTRESS_MESSAGE)]

SafeResult ==
    [safe |-> TRUE, level |-> "Safe", intervention |-> None]

\* A gate that consults the emotion scores before the distress keywords.
check_with_emotions_emotions_first(t, emo) ==
    LET lower == to_lowercase(t)
    IN  IF is_match(CRISIS_KEYWORDS, lower) THEN CrisisResult
        ELSE IF IsSome(emo) /\ \E i \in 1..Len(Unwrap(emo)) : IsHighRisk(Unwrap(emo)[i])
             THEN EmotionDistressResult
        ELSE IF is_match(DISTRESS_KEYWORDS, lower) THEN DistressResult
        ELSE SafeResult

\* SafetyFilter::check_with_emotions.
check_with_emotions(t, emo) ==
    LET lower == to_lowercase(t)
    IN  IF is_match(CRISIS_KEYWORDS, lower) THEN CrisisResult
        ELSE IF is_match(DISTRESS_KEYWORDS, lower) THEN DistressResult
        ELSE IF IsSome(emo) /\ \E i \in 1..Len(Unwrap(emo)) : IsHighRisk(Unwrap(emo)[i])
             THEN EmotionDistressResult
        ELSE SafeResult

\* An augmentation that puts the resources in front of the response.
augment_response_prepend(response, safety) ==
    IF safety.level = "Distress"
    THEN SUPPORT_RESOURCES \o << "\n\n" >> \o response
    ELSE response

\* SafetyFilter::augment_response: format!("{}\n\n{}", response, SUPPORT_RESOURCES).
augment_response(response, safety) ==
    IF safety.level = "Distress"
    THEN response \o << "\n\n" >> \o SUPPORT_RESOURCES
    ELSE response

\* str::starts_with.
starts_with(s, prefix) ==
    /\ Len(prefix) <= Len(s)
    /\ SubSeq(s, 1, Len(prefix)) = prefix

\* The augmentation when the suffix is not emitted.
SafetyAugmentationSilent(full, safety) ==
    [chunks |-> <<>>, full_response |-> augment_response(full, safety)]

\* chat_stream after the chunk marked done (lib.rs:794-817): the extra chunks it
\* emits and the new value of full_response.
SafetyAugmentation(full, safety) ==
    LET aug == augment_response(full, safety)
    IN  IF aug # full
        THEN LET suffix == IF starts_with(aug, full)
                           THEN SubSeq(aug, Len(full) + 1, Len(aug))
                           ELSE aug
             IN  [chunks |-> IF suffix # <<>> THEN << suffix >> ELSE <<>>,
                  full_response |-> aug]
        ELSE [chunks |-> <<>>, full_response |-> full]

(***************************************************************************)
(* Inputs of the safety gate.                                              *)
(***************************************************************************)

FragKillMyself == <<"k","i","l","l"," ","m","y","s","e","l","f">>

FragSuicide == <<"S","u","i","c","i","d","e">>

FragSelf == <<"s","e","l","f">>

FragHarm == <<"h","a","r","m">>

FragIng == <<"i","n","g">>

FragHopeless == <<"H","O","P","E","L","E","S","S">>

Fragments ==
    { FragKillMyself, FragSuicide, FragSelf, FragHarm, FragIng, FragHopeless,
      <<"-">> }

\* The texts are the concatenations of at most MaxFragments fragments.
MaxFragments == 3

RECURSIVE TextsUpTo(_)
TextsUpTo(n) ==
    IF n = 0 THEN { <<>> }
    ELSE LET prev == TextsUpTo(n - 1)
         IN  prev \cup { t \o f : t \in prev, f \in Fragments }

Texts == TextsUpTo(MaxFragments)

Predictions ==
    { [label |-> <<"F","E","A","R">>, score |-> 51],
      [label |-> <<"s","a","d","n","e","s","s">>, score |-> 50],
      [label |-> <<"j","o","y">>, score |-> 90] }

\* The emotion lists hold at most MaxEmotions predictions.
MaxEmotions == 2

RECURSIVE SeqsUpTo(_, _)
SeqsUpTo(S, n) ==
    IF n = 0 THEN { <<>> }
    ELSE LET prev == SeqsUpTo(S, n - 1)
         IN  prev \cup { Append(s, x) : s \in prev, x \in S }

EmotionInputs == { None } \cup { Some(l) : l \in SeqsUpTo(Predictions, MaxEmotions) }

InitSafety ==
    /\ TasksIdle
    /\ StoreIdle
    /\ text \in Texts
    /\ emotions \in EmotionInputs
    /\ safety_result = None
    /\ full_response = <<>>
    /\ augmented = None
    /\ fts_results = <<>> /\ vec_results = <<>> /\ limit = 0 /\ combined = <<>>
    /\ SearchIdle
    /\ BudgetIdle
    /\ ChatIdle

\* One call of check_with_emotions(text, emotions).
CheckSafety ==
    /\ safety_result = None
    /\ safety_result' = Some(check_with_emotions(text, emotions))
    /\ UNCHANGED <<text, emotions, full_response, augmented>>
    /\ UNCHANGED fusionVars
    /\ UNCHANGED searchVars
    /\ UNCHANGED budgetVars
    /\ UNCHANGED chatVars
    /\ UNCHANGED storeVars
    /\ UNCHANGED taskVars

NextSafety == CheckSafety

SpecSafety == InitSafety /\ [][NextSafety]_vars

(***************************************************************************)
(* augment_response on every verdict the gate can return.                  *)
(***************************************************************************)

\* The values check_with_emotions returns (safety.rs:69-108).
Verdicts == { CrisisResult, DistressResult, EmotionDistressResult, SafeResult }

\* The pieces a model response is made of.
ResponsePieces == { "I hear you.", "\n\n", "---" }

\* The responses hold at most MaxResponsePieces pieces.
MaxResponsePieces == 3

Responses == SeqsUpTo(ResponsePieces, MaxResponsePieces)

InitAugment ==
    /\ TasksIdle
    /\ StoreIdle
    /\ text = <<>>
    /\ emotions = None
    /\ safety_result \in { Some(v) : v \in Verdicts }
    /\ full_response \in Responses
    /\ augmented = None
    /\ fts_results = <<>> /\ vec_results = <<>> /\ limit = 0 /\ combined = <<>>
    /\ SearchIdle
    /\ BudgetIdle
    /\ ChatIdle

\* augment_with_safety(&full_response, &safety_result) and the chunk emission
\* that follows it in chat_stream.
AugmentResponse ==
    /\ augmented = None
    /\ augmented' = Some([result  |-> augment_response(full_response, Unwrap(safety_result)),
                          emitted |-> SafetyAugmentation(full_response, Unwrap(safety_result))])
    /\ UNCHANGED <<text, emotions, safety_result, full_response>>
    /\ UNCHANGED fusionVars
    /\ UNCHANGED searchVars
    /\ UNCHANGED budgetVars
    /\ UNCHANGED chatVars
    /\ UNCHANGED storeVars
    /\ UNCHANGED taskVars

NextAugment == AugmentResponse

SpecAugment == InitAugment /\ [][NextAugment]_vars

(***************************************************************************)
(*                  RANK FUSION ENGINE  (db/search.rs)                     *)
(*                                                                         *)
(* An f64 score is held as an exact fraction [num, den].  Every score the  *)
(* code forms is 1/(60+r) or a sum of two of them with r small, so two     *)
(* scores are equal as f64 exactly when the fractions are equal, and they  *)
(* compare as the fractions do.                                            *)
(***************************************************************************)

\* RRF_K (search.rs:10).
RRF_K == 60

Zero == [num |-> 0, den |-> 1]

RatAdd(a, b) == [num |-> a.num * b.den + b.num * a.den, den |-> a.den * b.den]

RatLess(a, b) == a.num * b.den < b.num * a.den

RatEq(a, b) == a.num * b.den = b.num * a.den

Min(a, b) == IF a <= b THEN a ELSE b

\* A contribution computed from the zero-based index, without the + 1.
RrfScoreZeroBased(rank) == [num |-> 1, den |-> RRF_K + rank]

\* 1.0 / (RRF_K + (rank + 1) as f64), rank being the zero-based index of enumerate().
RrfScore(rank) == [num |-> 1, den |-> RRF_K + (rank + 1)]

\* scores.entry(id).or_insert((0.0, None, None)); entry.0 += rrf_score; and the
\* rank field of the channel ("fts_rank" or "vec_rank") = Some(rank + 1).
AddContribution(scores, id, rank, channel) ==
    LET old == IF id \in DOMAIN scores
               THEN scores[id]
               ELSE [score |-> Zero, fts_rank |-> None, vec_rank |-> None]
        new == [old EXCEPT !.score = RatAdd(@, RrfScore(rank)),
                           ![channel] = Some(rank + 1)]
    IN  [k \in DOMAIN scores \cup {id} |-> IF k = id THEN new ELSE scores[k]]

\* One of the two for-loops of search.rs:186-199, from zero-based index rank on.
RECURSIVE AddChannel(_, _, _, _)
AddChannel(scores, results, rank, channel) ==
    IF rank >= Len(results) THEN scores
    ELSE AddChannel(AddContribution(scores, results[rank + 1][1], rank, channel),
                    results, rank + 1, channel)

\* The orders in which a HashMap may yield the keys S.
RECURSIVE Orders(_)
Orders(S) ==
    IF S = {} THEN { <<>> }
    ELSE UNION { { << x >> \o o : o \in Orders(S \ {x}) } : x \in S }

\* Insertion of x behind every element that does not compare after it
\* under |a, b| b.1.partial_cmp(&a.1).
InsertDescending(sorted, x) ==
    LET k == Cardinality({ i \in 1..Len(sorted) : ~RatLess(sorted[i].score, x.score) })
    IN  SubSeq(sorted, 1, k) \o << x >> \o SubSeq(sorted, k + 1, Len(sorted))

\* slice::sort_by (stable) by descending score.
RECURSIVE SortByScoreDescending(_)
SortByScoreDescending(list) ==
    IF list = <<>> THEN <<>>
    ELSE InsertDescending(SortByScoreDescending(SubSeq(list, 1, Len(list) - 1)),
                          list[Len(list)])

\* Vec::truncate.
Truncate(list, n) == SubSeq(list, 1, Min(n, Len(list)))

\* The HashMap of search.rs:183 after both loops.
FusionScores(fts, vec) ==
    AddChannel(AddChannel(<<>>, fts, 0, "fts_rank"), vec, 0, "vec_rank")

\* scores.into_iter().map(...).collect() for the iteration order `order`.
Collected(scores, order) ==
    [i \in 1..Len(order) |->
        [id       |-> order[i],
         score    |-> scores[order[i]].score,
         fts_rank |-> scores[order[i]].fts_rank,
         vec_rank |-> scores[order[i]].vec_rank]]

\* A fusion that cuts the collected list to the limit before sorting it.
reciprocal_rank_fusion_truncate_first(fts, vec, lim, order) ==
    SortByScoreDescending(Truncate(Collected(FusionScores(fts, vec), order), lim))

\* reciprocal_rank_fusion, for the order in which the HashMap yields its entries.
reciprocal_rank_fusion(fts, vec, lim, order) ==
    Truncate(SortByScoreDescending(Collected(FusionScores(fts, vec), order)), lim)

\* The ids of a hit list.
HitIds(results) == { results[i][1] : i \in 1..Len(results) }

(***************************************************************************)
(* Inputs of the fusion.                                                   *)
(***************************************************************************)

\* The entry ids of test_rrf_calculation.
EntryIds == { "a", "b", "c", "d" }

\* A hit list holds at most MaxHits hits.
MaxHits == 3

\* The limit is at most MaxLimit.
MaxLimit == 3

\* The sequences of distinct ids of length at most n.
RECURSIVE DistinctSeqs(_, _)
DistinctSeqs(S, n) ==
    IF n = 0 THEN { <<>> }
    ELSE LET prev == DistinctSeqs(S, n - 1)
             more == UNION { { Append(q, x) : x \in S \ { q[i] : i \in 1..Len(q) } } : q \in prev }
         IN  prev \cup more

\* The hit list of the ids, each hit (id, raw score); the raw scores ascend as
\* bm25 ranks and distances do in a list that is ordered best first.
HitsOf(ids) == [i \in 1..Len(ids) |-> << ids[i], i >>]

HitLists == { HitsOf(ids) : ids \in DistinctSeqs(EntryIds, MaxHits) }

InitFusion ==
    /\ TasksIdle
    /\ StoreIdle
    /\ fts_results \in HitLists
    /\ vec_results \in HitLists
    /\ limit \in 0..MaxLimit
    /\ combined = <<>>
    /\ text = <<>> /\ emotions = None /\ safety_result = None
    /\ full_response = <<>> /\ augmented = None
    /\ SearchIdle
    /\ BudgetIdle
    /\ ChatIdle

\* One call of reciprocal_rank_fusion(&fts_results, &vec_results, limit); the
\* same inputs are fused twice.
Fuse ==
    /\ Len(combined) < 2
    /\ \E order \in Orders(HitIds(fts_results) \cup HitIds(vec_results)) :
          combined' = Append(combined,
                             reciprocal_rank_fusion(fts_results, vec_results, limit, order))
    /\ UNCHANGED <<fts_results, vec_results, limit>>
    /\ UNCHANGED safetyVars
    /\ UNCHANGED searchVars
    /\ UNCHANGED budgetVars
    /\ UNCHANGED chatVars
    /\ UNCHANGED storeVars
    /\ UNCHANGED taskVars

NextFusion == Fuse

SpecFusion == InitFusion /\ [][NextFusion]_vars

(***************************************************************************)
(*       LEXICAL SEARCH AND HYBRID SEARCH WITHOUT EMBEDDING (db/search.rs) *)
(***************************************************************************)

\* Result<T, AppError>.
Ok(v) == [ok |-> TRUE, val |-> v, err |-> ""]

Err(e) == [ok |-> FALSE, val |-> <<>>, err |-> e]

\* str::replace('"', "\"\"").
RECURSIVE ReplaceQuotes(_)
ReplaceQuotes(s) ==
    IF s = <<>> THEN <<>>
    ELSE (IF Head(s) = "\"" THEN << "\"", "\"" >> ELSE << Head(s) >>)
             \o ReplaceQuotes(Tail(s))

IsWhitespace(c) == c \in { " ", "\t", "\n" }

\* str::split_whitespace, cur being the word read so far.
RECURSIVE SplitWhitespace(_, _)
SplitWhitespace(s, cur) ==
    IF s = <<>> THEN (IF cur = <<>> THEN <<>> ELSE << cur >>)
    ELSE IF IsWhitespace(Head(s))
         THEN (IF cur = <<>> THEN <<>> ELSE << cur >>) \o SplitWhitespace(Tail(s), <<>>)
         ELSE SplitWhitespace(Tail(s), Append(cur, Head(s)))

\* [String]::join.
RECURSIVE Join(_, _)
Join(words, sep) ==
    IF words = <<>> THEN <<>>
    ELSE IF Len(words) = 1 THEN words[1]
    ELSE words[1] \o sep \o Join(Tail(words), sep)

\* escaped_query of fts_search (search.rs:68-73): every word becomes "word"*.
EscapedQuery(q) ==
    LET words == SplitWhitespace(ReplaceQuotes(q), <<>>)
    IN  Join([i \in 1..Len(words) |-> << "\"" >> \o words[i] \o << "\"", "*" >>], << " " >>)

\* The rows of the full-text index that the SQL of fts_search keeps
\* (AND j.is_archived = 0 unless include_archived).
RECURSIVE FilterArchived(_, _, _)
FilterArchived(rows, arch, incl) ==
    IF rows = <<>> THEN <<>>
    ELSE (IF incl \/ Head(rows) \notin arch THEN << Head(rows) >> ELSE <<>>)
             \o FilterArchived(Tail(rows), arch, incl)

\* fts_search: the MATCH query with ORDER BY rank LIMIT lim.  FTS5 rejects an
\* empty MATCH expression with a syntax error, which `?` turns into Err.
fts_search(idx, arch, q, lim, incl) ==
    IF EscapedQuery(q) = <<>> THEN Err("Database")
    ELSE Ok(HitsOf(Truncate(FilterArchived(idx, arch, incl), lim)))

\* journals::get for an id that the store holds: the Journal row.
JournalRow(id, arch) == [id |-> id, is_archived |-> id \in arch]

\* hybrid_search called with query_embedding = None (search.rs:26-59), for the
\* order in which the HashMap of the fusion yields its entries.
hybrid_search_no_embedding(idx, arch, q, lim, incl, order) ==
    LET fts == fts_search(idx, arch, q, lim * 2, incl)
    IN  IF ~fts.ok THEN fts
        ELSE LET fused == reciprocal_rank_fusion(fts.val, <<>>, lim, order)
             IN  Ok([i \in 1..Len(fused) |->
                        [journal  |-> JournalRow(fused[i].id, arch),
                         score    |-> fused[i].score,
                         fts_rank |-> fused[i].fts_rank,
                         vec_rank |-> fused[i].vec_rank]])

\* An fts_only_search that numbers the ranks from zero.
fts_only_search_from_zero(idx, arch, q, lim, incl) ==
    LET fts == fts_search(idx, arch, q, lim, incl)
    IN  IF ~fts.ok THEN fts
        ELSE Ok([i \in 1..Len(fts.val) |->
                    [journal  |-> JournalRow(fts.val[i][1], arch),
                     score    |-> RrfScore(i - 1),
                     fts_rank |-> Some(i - 1),
                     vec_rank |-> None]])

\* fts_only_search (search.rs:214-234); i - 1 is the index of enumerate().
fts_only_search(idx, arch, q, lim, incl) ==
    LET fts == fts_search(idx, arch, q, lim, incl)
    IN  IF ~fts.ok THEN fts
        ELSE Ok([i \in 1..Len(fts.val) |->
                    [journal  |-> JournalRow(fts.val[i][1], arch),
                     score    |-> RrfScore(i - 1),
                     fts_rank |-> Some((i - 1) + 1),
                     vec_rank |-> None]])

\* The index matches at most MaxMatches entries.
MaxMatches == 3

\* The subsets of a set.
Subsets(S) == SUBSET S

\* The queries: empty, blank, one word, two words, a word with a quote.
Queries ==
    { <<>>, << " " >>, << "g", "o" >>, << "g", "o", " ", "m" >>, << "\"", "g" >> }

InitSearch ==
    /\ TasksIdle
    /\ StoreIdle
    /\ fts_index \in DistinctSeqs(EntryIds, MaxMatches)
    /\ archived \in Subsets({ fts_index[i] : i \in 1..Len(fts_index) })
    /\ query \in Queries
    /\ include_archived \in BOOLEAN
    /\ limit \in 0..MaxLimit
    /\ hybrid_out = None
    /\ fts_only_out = None
    /\ fts_results = <<>> /\ vec_results = <<>> /\ combined = <<>>
    /\ text = <<>> /\ emotions = None /\ safety_result = None
    /\ full_response = <<>> /\ augmented = None
    /\ BudgetIdle
    /\ ChatIdle

\* hybrid_search(conn, query, None, limit, include_archived).
HybridSearchNoEmbedding ==
    /\ hybrid_out = None
    /\ LET fts == fts_search(fts_index, archived, query, limit * 2, include_archived)
       IN  \E order \in Orders(IF fts.ok THEN HitIds(fts.val) ELSE {}) :
               hybrid_out' = Some(hybrid_search_no_embedding(fts_index, archived, query, limit,
                                                             include_archived, order))
    /\ UNCHANGED <<archived, fts_index, query, include_archived, fts_only_out>>
    /\ UNCHANGED safetyVars
    /\ UNCHANGED fusionVars
    /\ UNCHANGED budgetVars
    /\ UNCHANGED chatVars
    /\ UNCHANGED storeVars
    /\ UNCHANGED taskVars

\* fts_only_search(conn, query, limit, include_archived).
FtsOnlySearch ==
    /\ fts_only_out = None
    /\ fts_only_out' = Some(fts_only_search(fts_index, archived, query, limit, include_archived))
    /\ UNCHANGED <<archived, fts_index, query, include_archived, hybrid_out>>
    /\ UNCHANGED safetyVars
    /\ UNCHANGED fusionVars
    /\ UNCHANGED budgetVars
    /\ UNCHANGED chatVars
    /\ UNCHANGED storeVars
    /\ UNCHANGED taskVars


(***************************************************************************)
(*        VECTOR STORE AND VECTOR SEARCH  (db/vectors.rs, db/search.rs)    *)
(*                                                                         *)
(* A stored vector is held as its distance to the query vector, the only   *)
(* thing a search reads of it; a vector handed to a function is held as    *)
(* [dim, dist], dim being its length.  journal_embeddings and              *)
(* chunk_embeddings are functions from the key of a row to its distance,   *)
(* embedding_chunks is the set of its rows [id, journal_id, chunk_index].  *)
(***************************************************************************)

EMBEDDING_DIM == 384

\* The restriction of a function to the keys in K.
Restrict(f, K) == [k \in DOMAIN f \cap K |-> f[k]]

\* The least value of a function with a non-empty domain.
Least(dist) == CHOOSE d \in { dist[k] : k \in DOMAIN dist } :
                   \A k \in DOMAIN dist : d <= dist[k]

\* ORDER BY distance over a vec0 table: the orders of the keys by ascending
\* distance, rows of equal distance coming in any order.
RECURSIVE AscendingOrders(_)
AscendingOrders(dist) ==
    IF DOMAIN dist = {} THEN { <<>> }
    ELSE UNION { { << k >> \o o : o \in AscendingOrders(Restrict(dist, DOMAIN dist \ {k})) } :
                     k \in { x \in DOMAIN dist : dist[x] = Least(dist) } }

\* search_similar (vectors.rs:89-121): the dimension check, then the lim nearest
\* rows of journal_embeddings as (journal_id, distance), knn being the order in
\* which the index ranks its rows.
search_similar(je, dim, lim, knn) ==
    IF dim # EMBEDDING_DIM THEN Err("InvalidInput")
    ELSE Ok(Truncate([i \in 1..Len(knn) |-> << knn[i], je[knn[i]] >>], lim))

\* The JOIN of search_similar_chunks: the rows of the nearest chunk vectors that
\* have a row in embedding_chunks, with the journal_id of that row.
RECURSIVE JoinChunks(_, _, _)
JoinChunks(near, ec, ce) ==
    IF near = <<>> THEN <<>>
    ELSE LET rows == { r \in ec : r.id = Head(near) }
         IN  (IF rows = {} THEN <<>>
              ELSE << [chunk_id   |-> Head(near),
                       journal_id |-> (CHOOSE r \in rows : TRUE).journal_id,
                       distance   |-> ce[Head(near)]] >>)
                 \o JoinChunks(Tail(near), ec, ce)

\* search_similar_chunks (vectors.rs:209-248): the dimension check, then the lim
\* nearest rows of chunk_embeddings joined with embedding_chunks.
search_similar_chunks(ec, ce, dim, lim, knn) ==
    IF dim # EMBEDDING_DIM THEN Err("InvalidInput")
    ELSE Ok(JoinChunks(Truncate(knn, lim), ec, ce))

\* An entry of best_scores that the latest hit always overwrites.
BestInsertOverwrite(best, id, distance) ==
    [k \in DOMAIN best \cup {id} |-> IF k = id THEN distance ELSE best[k]]

\* best_scores.entry(id).and_modify(|d| if distance < *d { *d = distance })
\*            .or_insert(distance)   (search.rs:122-129, 133-140).
BestInsert(best, id, distance) ==
    [k \in DOMAIN best \cup {id} |->
        IF k # id THEN best[k]
        ELSE IF id \in DOMAIN best /\ ~(distance < best[id]) THEN best[id]
        ELSE distance]

\* The loop of search.rs:121-130 over entry_results, from index i on.
RECURSIVE MergeEntries(_, _, _)
MergeEntries(best, entry_results, i) ==
    IF i > Len(entry_results) THEN best
    ELSE MergeEntries(BestInsert(best, entry_results[i][1], entry_results[i][2]),
                      entry_results, i + 1)

\* The loop of search.rs:132-141 over chunk_results, from index i on.
RECURSIVE MergeChunks(_, _, _)
MergeChunks(best, chunk_results, i) ==
    IF i > Len(chunk_results) THEN best
    ELSE MergeChunks(BestInsert(best, chunk_results[i].journal_id, chunk_results[i].distance),
                     chunk_results, i + 1)

\* The keys of a HashMap in the order it yields them: `order` ranks every id,
\* and the map yields its keys as `order` ranks them.
RECURSIVE IterationOrder(_, _)
IterationOrder(order, keys) ==
    IF order = <<>> THEN <<>>
    ELSE (IF Head(order) \in keys THEN << Head(order) >> ELSE <<>>)
             \o IterationOrder(Tail(order), keys)

\* Insertion of x behind every element that does not compare after it under
\* |a, b| a.1.partial_cmp(&b.1).
InsertAscending(sorted, x) ==
    LET k == Cardinality({ i \in 1..Len(sorted) : sorted[i][2] <= x[2] })
    IN  SubSeq(sorted, 1, k) \o << x >> \o SubSeq(sorted, k + 1, Len(sorted))

\* slice::sort_by (stable) by ascending distance (search.rs:145).
RECURSIVE SortByDistanceAscending(_)
SortByDistanceAscending(list) ==
    IF list = <<>> THEN <<>>
    ELSE InsertAscending(SortByDistanceAscending(SubSeq(list, 1, Len(list) - 1)),
                         list[Len(list)])

\* search.rs:119-145: best_scores collected in the order the HashMap yields its
\* entries, then sorted.
MergedByDistance(entry_results, chunk_results, order) ==
    LET best == MergeChunks(MergeEntries(<<>>, entry_results, 1), chunk_results, 1)
        keys == IterationOrder(order, DOMAIN best)
    IN  SortByDistanceAscending([i \in 1..Len(keys) |-> << keys[i], best[keys[i]] >>])

\* A filter that keeps the archived entries too.
RECURSIVE FilterLoopKeepArchived(_, _, _, _, _, _)
FilterLoopKeepArchived(merged, i, filtered, rows, arch, lim) ==
    IF i > Len(merged) THEN filtered
    ELSE LET id   == merged[i][1]
             next == IF id \in rows THEN Append(filtered, merged[i]) ELSE filtered
         IN  IF Len(next) >= lim THEN next
             ELSE FilterLoopKeepArchived(merged, i + 1, next, rows, arch, lim)

\* The loop of search.rs:151-169: SELECT is_archived FROM journals WHERE id = ?
\* for every merged hit, rows being the ids of the journals table and arch the
\* ids whose flag is set; a hit without a row is logged and left out.
RECURSIVE FilterLoop(_, _, _, _, _, _)
FilterLoop(merged, i, filtered, rows, arch, lim) ==
    IF i > Len(merged) THEN filtered
    ELSE LET id   == merged[i][1]
             next == IF id \in rows /\ id \notin arch
                     THEN Append(filtered, merged[i]) ELSE filtered
         IN  IF Len(next) >= lim THEN next
             ELSE FilterLoop(merged, i + 1, next, rows, arch, lim)

\* vector_search (search.rs:106-174).  db holds the tables; eknn and cknn are the
\* orders in which the two vec0 tables rank their rows, order the iteration
\* order of best_scores.
vector_search(db, dim, lim, incl, eknn, cknn, order) ==
    LET entry_results == search_similar(db.journal_embeddings, dim, lim * 2, eknn)
    IN  IF ~entry_results.ok THEN entry_results
        ELSE LET chunk_results == search_similar_chunks(db.embedding_chunks,
                                      db.chunk_embeddings, dim, lim * 3, cknn)
             IN  IF ~chunk_results.ok THEN chunk_results
                 ELSE LET merged == MergedByDistance(entry_results.val,
                                                     chunk_results.val, order)
                      IN  IF ~incl
                          THEN Ok(FilterLoop(merged, 1, <<>>, db.journals, db.archived, lim))
                          ELSE Ok(Truncate(merged, lim))

\* hybrid_search (search.rs:26-59) over the tables db.  embedding is the
\* Option of the query vector; fuse_order is the iteration order of the HashMap
\* of the fusion.  journals::get fails with NotFound for an id without a row.
hybrid_search(db, q, embedding, lim, incl, eknn, cknn, order, fuse_order) ==
    LET fts == fts_search(db.fts_index, db.archived, q, lim * 2, incl)
    IN  IF ~fts.ok THEN fts
        ELSE LET vec == IF IsSome(embedding)
                        THEN vector_search(db, Unwrap(embedding).dim, lim * 2, incl,
                                           eknn, cknn, order)
                        ELSE Ok(<<>>)
             IN  IF ~vec.ok THEN vec
                 ELSE LET ids   == HitIds(fts.val) \cup HitIds(vec.val)
                          fused == reciprocal_rank_fusion(fts.val, vec.val, lim,
                                                          IterationOrder(fuse_order, ids))
                      IN  IF \E i \in 1..Len(fused) : fused[i].id \notin db.journals
                          THEN Err("NotFound")
                          ELSE Ok([i \in 1..Len(fused) |->
                                      [journal  |-> JournalRow(fused[i].id, db.archived),
                                       score    |-> fused[i].score,
                                       fts_rank |-> fused[i].fts_rank,
                                       vec_rank |-> fused[i].vec_rank]])

\* A journals::search without the check of the trimmed query.
journals_search_unchecked(db, q, incl) ==
    IF EscapedQuery(q) = <<>> THEN Err("Database")
    ELSE LET ids == Truncate(FilterArchived(db.fts_index, db.archived, incl), 50)
         IN  Ok([i \in 1..Len(ids) |-> JournalRow(ids[i], db.archived)])

\* journals::search (journals.rs:326-380): Ok(vec![]) for a query whose trim()
\* is empty, else the MATCH query with ORDER BY rank LIMIT 50.
journals_search(db, q, incl) ==
    IF SplitWhitespace(q, <<>>) = <<>> THEN Ok(<<>>)
    ELSE journals_search_unchecked(db, q, incl)

\* search_entries (lib.rs:116-124): journals::search(conn, query,
\* include_archived) on the tables that hold the index and the flags of this
\* search.
JournalsSearch ==
    /\ store_out = None
    /\ LET db == [journals           |-> { fts_index[i] : i \in 1..Len(fts_index) } \cup archived,
                  archived           |-> archived,
                  fts_index          |-> fts_index,
                  journal_embeddings |-> <<>>,
                  embedding_chunks   |-> {},
                  chunk_embeddings   |-> <<>>]
       IN  store_out' = Some([op               |-> "journals_search",
                              limit            |-> 50,
                              include_archived |-> include_archived,
                              embedding        |-> None,
                              result           |-> journals_search(db, query,
                                                                   include_archived)])
    /\ UNCHANGED <<store, created>>
    /\ UNCHANGED searchVars
    /\ UNCHANGED taskVars
    /\ UNCHANGED safetyVars
    /\ UNCHANGED fusionVars
    /\ UNCHANGED budgetVars
    /\ UNCHANGED chatVars

NextSearch == HybridSearchNoEmbedding \/ FtsOnlySearch \/ JournalsSearch

SpecSearch == InitSearch /\ [][NextSearch]_vars

(***************************************************************************)
(* The tables and the operations that write them.  db is the record of the *)
(* tables: journals (the ids that have a row), archived (the ids whose     *)
(* is_archived is 1), fts_index (journals_fts: the ids whose content       *)
(* matches the query, in bm25 order), journal_embeddings, embedding_chunks *)
(* and chunk_embeddings.  The foreign keys are enforced, as                *)
(* test_cascade_delete_with_journal (db/chat.rs) has it; the vec0 tables   *)
(* declare none.                                                           *)
(***************************************************************************)

\* The tables after run_migrations (schema.rs:7-131) on a new file.
EmptyDb ==
    [journals           |-> {},
     archived           |-> {},
     fts_index          |-> <<>>,
     journal_embeddings |-> <<>>,
     embedding_chunks   |-> {},
     chunk_embeddings   |-> <<>>]

\* list with x inserted so that it is the element at position pos.
InsertAt(list, pos, x) ==
    SubSeq(list, 1, pos - 1) \o << x >> \o SubSeq(list, pos, Len(list))

\* list without the elements equal to x.
RECURSIVE Without(_, _)
Without(list, x) ==
    IF list = <<>> THEN <<>>
    ELSE (IF Head(list) = x THEN <<>> ELSE << Head(list) >>) \o Without(Tail(list), x)

\* journals::create (journals.rs:67-94) of the entry id; trigger journals_ai
\* indexes its content, rank being the bm25 position of the entry when its
\* content matches the query and 0 when it does not.
journals_create(db, id, rank) ==
    [db EXCEPT !.journals  = @ \cup {id},
               !.fts_index = IF rank = 0 THEN @ ELSE InsertAt(@, rank, id)]

\* journals::archive (journals.rs:284-302).
journals_archive(db, id) ==
    IF id \notin db.journals THEN db
    ELSE [db EXCEPT !.archived = @ \cup {id}]

\* journals::unarchive (journals.rs:305-323).
journals_unarchive(db, id) ==
    IF id \notin db.journals THEN db
    ELSE [db EXCEPT !.archived = @ \ {id}]

\* journals::delete (journals.rs:268-281): trigger journals_ad takes the row out
\* of the index, ON DELETE CASCADE takes its rows out of embedding_chunks; the
\* rows of journal_embeddings and chunk_embeddings stay.
journals_delete(db, id) ==
    IF id \notin db.journals THEN db
    ELSE [db EXCEPT !.journals         = @ \ {id},
                    !.archived         = @ \ {id},
                    !.fts_index        = Without(@, id),
                    !.embedding_chunks = { r \in @ : r.journal_id # id }]

\* has_embedding (vectors.rs:124-129).
has_embedding(db, id) == id \in DOMAIN db.journal_embeddings

\* store_embedding (vectors.rs:13-50): the dimension check, then INSERT OR
\* REPLACE into journal_embeddings, then the insert into embedding_metadata,
\* which fails on its foreign key when the journal has no row.  The result is
\* the tables and the Result.
store_embedding(db, id, embedding) ==
    IF embedding.dim # EMBEDDING_DIM
    THEN [db |-> db, result |-> Err("InvalidInput")]
    ELSE [db     |-> [db EXCEPT !.journal_embeddings =
                          [k \in DOMAIN @ \cup {id} |->
                              IF k = id THEN embedding.dist ELSE @[k]]],
          result |-> IF id \in db.journals THEN Ok(<<>>) ELSE Err("Database")]

\* uuid::Uuid::new_v4 (vectors.rs:178): an id that no row has; it is held as
\* the journal id and a number that no chunk of that journal has had.
NewChunkId(db, id) ==
    << id, 1 + Cardinality({ k \in DOMAIN db.chunk_embeddings : k[1] = id }) >>

\* The loop of vectors.rs:169-192 from chunk i on: the dimension check of the
\* chunk, then the two inserts; the insert into embedding_chunks fails on its
\* foreign key when the journal has no row.
RECURSIVE InsertChunks(_, _, _, _)
InsertChunks(db, id, chunks, i) ==
    IF i > Len(chunks) THEN [db |-> db, result |-> Ok(<<>>)]
    ELSE IF chunks[i].embedding.dim # EMBEDDING_DIM
         THEN [db |-> db, result |-> Err("InvalidInput")]
    ELSE IF id \notin db.journals
         THEN [db |-> db, result |-> Err("Database")]
    ELSE LET chunk_id == NewChunkId(db, id)
             next == [db EXCEPT
                         !.embedding_chunks = @ \cup
                             { [id |-> chunk_id, journal_id |-> id,
                                chunk_index |-> chunks[i].chunk_index] },
                         !.chunk_embeddings =
                             [k \in DOMAIN @ \cup {chunk_id} |->
                                 IF k = chunk_id THEN chunks[i].embedding.dist ELSE @[k]]]
         IN  InsertChunks(next, id, chunks, i + 1)

\* store_chunk_embeddings (vectors.rs:142-195): the rows of the journal are
\* deleted from embedding_chunks, the chunk ids still found there for the
\* journal (none, after that DELETE) are deleted from chunk_embeddings, and the
\* new chunks are inserted one by one.
store_chunk_embeddings(db, id, chunks) ==
    LET deleted  == [db EXCEPT !.embedding_chunks = { r \in @ : r.journal_id # id }]
        existing == { r.id : r \in { x \in deleted.embedding_chunks : x.journal_id = id } }
        cleared  == [deleted EXCEPT !.chunk_embeddings = Restrict(@, DOMAIN @ \ existing)]
    IN  InsertChunks(cleared, id, chunks, 1)

(***************************************************************************)
(* Calls of the vector functions on a store.                               *)
(***************************************************************************)

\* The entries of the store, in the order of their creation.
VectorIds == << "a", "b", "c" >>

\* Distances of entry vectors to the query vector.
EntryDistances == { 1, 2 }

\* The distances of the chunk vectors of an entry: no chunks, or two chunks of
\* which the second is the nearer.
ChunkDistanceLists == { <<>>, << 3, 1 >> }

\* A vector of the right length, at distance d of the query vector.
Embedding(d) == [dim |-> EMBEDDING_DIM, dist |-> d]

\* The chunk_data that generate_embedding_inner builds (lib.rs:596-609) for
\* chunks at the distances ds.
ChunkData(ds) ==
    [i \in 1..Len(ds) |-> [chunk_index |-> i - 1, embedding |-> Embedding(ds[i])]]

\* What an entry went through: whether its embedding was generated, with which
\* vectors, and whether it was archived or deleted afterwards.
EntryShapes ==
    [status : { "live", "archived", "deleted" },
     entry  : { None } \cup { Some(d) : d \in EntryDistances },
     chunks : ChunkDistanceLists]

\* The tables after entry id was created, embedded and archived or deleted as
\* the shape says.
WithEntry(db, id, shape) ==
    LET made     == journals_create(db, id, 0)
        stored   == IF IsSome(shape.entry)
                    THEN store_embedding(made, id, Embedding(Unwrap(shape.entry))).db
                    ELSE made
        chunked  == IF IsSome(shape.entry) /\ shape.chunks # <<>>
                    THEN store_chunk_embeddings(stored, id, ChunkData(shape.chunks)).db
                    ELSE stored
    IN  IF shape.status = "archived" THEN journals_archive(chunked, id)
        ELSE IF shape.status = "deleted" THEN journals_delete(chunked, id)
        ELSE chunked

\* The tables after the entries ids[1..n] went through their shapes.
RECURSIVE BuildDb(_, _, _)
BuildDb(ids, shapes, n) ==
    IF n = 0 THEN EmptyDb
    ELSE WithEntry(BuildDb(ids, shapes, n - 1), ids[n], shapes[n])

\* The lengths of the vectors handed in: the right one and a wrong one.
Dims == { EMBEDDING_DIM, 383 }

\* vector_search is called with a limit of at most MaxVectorLimit.
MaxVectorLimit == 2

\* The ids a store can hold.
IdsOf(ids) == { ids[i] : i \in 1..Len(ids) }

InitVector ==
    /\ TasksIdle
    /\ store \in { BuildDb(VectorIds, shapes, Len(VectorIds)) :
                      shapes \in { f \in [1..Len(VectorIds) -> EntryShapes] :
                                      \A i \in 1..Len(VectorIds) :
                                          f[i].entry = None => f[i].chunks = <<>> } }
    /\ created = Len(VectorIds)
    /\ store_out = None
    /\ text = <<>> /\ emotions = None /\ safety_result = None
    /\ full_response = <<>> /\ augmented = None
    /\ fts_results = <<>> /\ vec_results = <<>> /\ limit = 0 /\ combined = <<>>
    /\ SearchIdle
    /\ BudgetIdle
    /\ ChatIdle

VectorUnchangedOthers ==
    /\ UNCHANGED taskVars
    /\ UNCHANGED safetyVars
    /\ UNCHANGED fusionVars
    /\ UNCHANGED searchVars
    /\ UNCHANGED budgetVars
    /\ UNCHANGED chatVars

\* One call of vector_search(conn, query_embedding, limit, include_archived);
\* the two neighbour lists it read are kept beside its result.
VectorSearch ==
    /\ store_out = None
    /\ \E lim \in 1..MaxVectorLimit : \E incl \in BOOLEAN : \E dim \in Dims :
       \E eknn \in AscendingOrders(store.journal_embeddings) :
       \E cknn \in AscendingOrders(store.chunk_embeddings) :
          LET entry_results == search_similar(store.journal_embeddings, dim, lim * 2, eknn)
              chunk_results == search_similar_chunks(store.embedding_chunks,
                                                     store.chunk_embeddings,
                                                     dim, lim * 3, cknn)
              keys == HitIds(entry_results.val)
                          \cup { chunk_results.val[i].journal_id :
                                     i \in 1..Len(chunk_results.val) }
          IN  \E order \in Orders(keys) :
                 store_out' = Some([op               |-> "vector_search",
                                    limit            |-> lim,
                                    include_archived |-> incl,
                                    dim              |-> dim,
                                    entry_results    |-> entry_results,
                                    chunk_results    |-> chunk_results,
                                    result           |-> vector_search(store, dim, lim, incl,
                                                                       eknn, cknn, order)])
    /\ UNCHANGED <<store, created>>
    /\ VectorUnchangedOthers

NextVector == VectorSearch

SpecVector == InitVector /\ [][NextVector]_vars

(***************************************************************************)
(* Calls of the functions of db/vectors.rs, and of hybrid_search, with     *)
(* vectors of the right and of a wrong length.                             *)
(***************************************************************************)

\* The query of the searches: one word.
StoreQuery == << "g", "o" >>

\* store_chunk_embeddings is called with at most MaxCallChunks chunks.
MaxCallChunks == 2

\* The entries of the stores these calls run on.
DimensionIds == SubSeq(VectorIds, 1, 2)

\* The chunks handed to store_chunk_embeddings: chunk i has a vector of length
\* dims[i].
ChunksOfDims(dims) ==
    [i \in 1..Len(dims) |-> [chunk_index |-> i - 1,
                             embedding   |-> [dim |-> dims[i], dist |-> 2]]]

\* The lists of vector lengths of a call of store_chunk_embeddings.
DimLists == UNION { [1..n -> Dims] : n \in 1..MaxCallChunks }

InitDimension ==
    /\ TasksIdle
    /\ store \in { BuildDb(DimensionIds, shapes, Len(DimensionIds)) :
                      shapes \in { f \in [1..Len(DimensionIds) -> EntryShapes] :
                                      \A i \in 1..Len(DimensionIds) :
                                          f[i].entry = None => f[i].chunks = <<>> } }
    /\ created = Len(DimensionIds)
    /\ store_out = None
    /\ text = <<>> /\ emotions = None /\ safety_result = None
    /\ full_response = <<>> /\ augmented = None
    /\ fts_results = <<>> /\ vec_results = <<>> /\ limit = 0 /\ combined = <<>>
    /\ SearchIdle
    /\ BudgetIdle
    /\ ChatIdle

\* store_embedding(conn, journal_id, embedding).
StoreEmbeddingCall ==
    /\ store_out = None
    /\ \E id \in IdsOf(DimensionIds) : \E dim \in Dims :
          LET r == store_embedding(store, id, [dim |-> dim, dist |-> 2])
          IN  /\ store' = r.db
              /\ store_out' = Some([op     |-> "store_embedding",
                                    dims   |-> << dim >>,
                                    before |-> store,
                                    result |-> r.result])
    /\ UNCHANGED created
    /\ VectorUnchangedOthers

\* store_chunk_embeddings(conn, journal_id, chunks).
StoreChunkEmbeddingsCall ==
    /\ store_out = None
    /\ \E id \in IdsOf(DimensionIds) : \E dims \in DimLists :
          LET r == store_chunk_embeddings(store, id, ChunksOfDims(dims))
          IN  /\ store' = r.db
              /\ store_out' = Some([op     |-> "store_chunk_embeddings",
                                    dims   |-> dims,
                                    before |-> store,
                                    result |-> r.result])
    /\ UNCHANGED created
    /\ VectorUnchangedOthers

\* search_similar(conn, query_embedding, limit).
SearchSimilarCall ==
    /\ store_out = None
    /\ \E dim \in Dims : \E lim \in 1..MaxVectorLimit :
       \E eknn \in AscendingOrders(store.journal_embeddings) :
          store_out' = Some([op     |-> "search_similar",
                             dims   |-> << dim >>,
                             before |-> store,
                             result |-> search_similar(store.journal_embeddings,
                                                       dim, lim, eknn)])
    /\ UNCHANGED <<store, created>>
    /\ VectorUnchangedOthers

\* search_similar_chunks(conn, query_embedding, limit).
SearchSimilarChunksCall ==
    /\ store_out = None
    /\ \E dim \in Dims : \E lim \in 1..MaxVectorLimit :
       \E cknn \in AscendingOrders(store.chunk_embeddings) :
          store_out' = Some([op     |-> "search_similar_chunks",
                             dims   |-> << dim >>,
                             before |-> store,
                             result |-> search_similar_chunks(store.embedding_chunks,
                                            store.chunk_embeddings, dim, lim, cknn)])
    /\ UNCHANGED <<store, created>>
    /\ VectorUnchangedOthers

\* hybrid_search(conn, query, Some(query_embedding), limit, include_archived).
HybridSearchCall ==
    /\ store_out = None
    /\ \E dim \in Dims : \E lim \in 1..MaxVectorLimit : \E incl \in BOOLEAN :
       \E eknn \in AscendingOrders(store.journal_embeddings) :
       \E cknn \in AscendingOrders(store.chunk_embeddings) :
       \E order \in Orders(IdsOf(DimensionIds)) :
       \E fuse_order \in Orders(IdsOf(DimensionIds)) :
          store_out' = Some([op     |-> "hybrid_search",
                             dims   |-> << dim >>,
                             before |-> store,
                             result |-> hybrid_search(store, StoreQuery,
                                            Some([dim |-> dim, dist |-> 0]), lim, incl,
                                            eknn, cknn, order, fuse_order)])
    /\ UNCHANGED <<store, created>>
    /\ VectorUnchangedOthers

NextDimension ==
    \/ StoreEmbeddingCall
    \/ StoreChunkEmbeddingsCall
    \/ SearchSimilarCall
    \/ SearchSimilarChunksCall
    \/ HybridSearchCall

SpecDimension == InitDimension /\ [][NextDimension]_vars

(***************************************************************************)
(* The store under the commands that write it, and the searches over it.   *)
(* A command runs under the connection lock (DbPool::get), so the commands *)
(* are taken one at a time.                                                *)
(***************************************************************************)

\* At most MaxEntries entries are created.
MaxEntries == 2

\* The ids created so far.
CreatedIds == { VectorIds[i] : i \in 1..created }

InitStore ==
    /\ TasksIdle
    /\ store = EmptyDb
    /\ created = 0
    /\ store_out = None
    /\ text = <<>> /\ emotions = None /\ safety_result = None
    /\ full_response = <<>> /\ augmented = None
    /\ fts_results = <<>> /\ vec_results = <<>> /\ limit = 0 /\ combined = <<>>
    /\ SearchIdle
    /\ BudgetIdle
    /\ ChatIdle

\* create_entry (lib.rs:28-37) with a content that is not blank: the entry gets
\* a new id, and its content matches the query at some bm25 rank or does not.
CreateEntry ==
    /\ created < MaxEntries
    /\ created < Len(VectorIds)
    /\ \E rank \in 0..(Len(store.fts_index) + 1) :
          store' = journals_create(store, VectorIds[created + 1], rank)
    /\ created' = created + 1
    /\ store_out' = None
    /\ VectorUnchangedOthers

\* archive_entry (lib.rs:109-113) of an entry that has a row.
ArchiveEntry ==
    /\ \E id \in store.journals : store' = journals_archive(store, id)
    /\ store_out' = None
    /\ UNCHANGED created
    /\ VectorUnchangedOthers

\* journals::unarchive of an archived entry.
UnarchiveEntry ==
    /\ \E id \in store.archived : store' = journals_unarchive(store, id)
    /\ store_out' = None
    /\ UNCHANGED created
    /\ VectorUnchangedOthers

\* delete_entry (lib.rs:78-106) of an entry that has a row.
DeleteEntry ==
    /\ \E id \in store.journals : store' = journals_delete(store, id)
    /\ store_out' = None
    /\ UNCHANGED created
    /\ VectorUnchangedOthers

\* generate_embedding_inner (lib.rs:562-625) for an entry that has a row and no
\* embedding yet, the model loading and embedding the content: the entry vector
\* is stored and, for a long content, the chunk vectors.  (With an embedding
\* present, without a row, or with a model that fails, it returns before it
\* writes.)
GenerateEmbedding ==
    /\ \E id \in store.journals : \E d \in EntryDistances : \E ds \in ChunkDistanceLists :
          /\ ~has_embedding(store, id)
          /\ LET stored == store_embedding(store, id, Embedding(d)).db
             IN  store' = IF ds # <<>>
                          THEN store_chunk_embeddings(stored, id, ChunkData(ds)).db
                          ELSE stored
    /\ store_out' = None
    /\ UNCHANGED created
    /\ VectorUnchangedOthers

\* search_entries (lib.rs:116-124): journals::search.
StoreJournalsSearch ==
    /\ \E incl \in BOOLEAN :
          store_out' = Some([op               |-> "journals_search",
                             limit            |-> 50,
                             include_archived |-> incl,
                             embedding        |-> None,
                             result           |-> journals_search(store, StoreQuery, incl)])
    /\ UNCHANGED <<store, created>>
    /\ VectorUnchangedOthers

\* fts_only_search(conn, query, limit, include_archived).
StoreFtsOnlySearch ==
    /\ \E lim \in 1..MaxVectorLimit : \E incl \in BOOLEAN :
          store_out' = Some([op               |-> "fts_only_search",
                             limit            |-> lim,
                             include_archived |-> incl,
                             embedding        |-> None,
                             result           |-> fts_only_search(store.fts_index,
                                                      store.archived, StoreQuery, lim, incl)])
    /\ UNCHANGED <<store, created>>
    /\ VectorUnchangedOthers

\* hybrid_search(conn, query, query_embedding, limit, include_archived), with
\* and without a query embedding.
StoreHybridSearch ==
    /\ \E lim \in 1..MaxVectorLimit : \E incl \in BOOLEAN :
       \E embedding \in { None, Some(Embedding(0)) } :
       \E eknn \in (IF IsSome(embedding) THEN AscendingOrders(store.journal_embeddings)
                    ELSE { <<>> }) :
       \E cknn \in (IF IsSome(embedding) THEN AscendingOrders(store.chunk_embeddings)
                    ELSE { <<>> }) :
       \E order \in (IF IsSome(embedding)
                     THEN Orders(DOMAIN store.journal_embeddings
                                     \cup { r.journal_id : r \in store.embedding_chunks })
                     ELSE { <<>> }) :
       \E fuse_order \in Orders(IdsOf(store.fts_index)
                                   \cup (IF IsSome(embedding)
                                         THEN DOMAIN store.journal_embeddings
                                                  \cup { r.journal_id :
                                                           r \in store.embedding_chunks }
                                         ELSE {})) :
          store_out' = Some([op               |-> "hybrid_search",
                             limit            |-> lim,
                             include_archived |-> incl,
                             embedding        |-> embedding,
                             result           |-> hybrid_search(store, StoreQuery, embedding,
                                                      lim, incl, eknn, cknn, order,
                                                      fuse_order)])
    /\ UNCHANGED <<store, created>>
    /\ VectorUnchangedOthers

NextStore ==
    \/ CreateEntry
    \/ ArchiveEntry
    \/ UnarchiveEntry
    \/ DeleteEntry
    \/ GenerateEmbedding
    \/ StoreJournalsSearch
    \/ StoreFtsOnlySearch
    \/ StoreHybridSearch

SpecStore == InitStore /\ [][NextStore]_vars

(***************************************************************************)
(*                CONTEXT BUDGET FITTER  (llm/chat.rs)                     *)
(*                                                                         *)
(* A chat message and a retrieval result are held as [id, len]: len is     *)
(* content.len(), the only thing the fitter reads of the content, and id   *)
(* is the position of the item in the list it came in.                     *)
(***************************************************************************)

MAX_CONTEXT_CHARS == 24000

SYSTEM_PROMPT_BUDGET == 2000

RAG_BUDGET == 8000

HISTORY_BUDGET == 14000

\* usize::saturating_sub.
saturating_sub(a, b) == IF a >= b THEN a - b ELSE 0

\* A reverse that leaves the list as it is.
ReverseIdentity(list) == list

\* Vec::reverse.
Reverse(list) == [i \in 1..Len(list) |-> list[Len(list) + 1 - i]]

\* The loop of chat.rs:273-280 over history.iter().rev(), at index i counted
\* from the front; kept holds the messages pushed so far.
RECURSIVE FitHistoryLoop(_, _, _, _, _)
FitHistoryLoop(history, i, history_chars, kept, history_budget) ==
    IF i = 0 THEN [chars |-> history_chars, kept |-> kept]
    ELSE LET msg_len == history[i].len + 20
         IN  IF history_chars + msg_len > history_budget
             THEN [chars |-> history_chars, kept |-> kept]
             ELSE FitHistoryLoop(history, i - 1, history_chars + msg_len,
                                 Append(kept, history[i]), history_budget)

\* A retrieval loop that passes over a result that does not fit and goes on.
RECURSIVE FitRagLoopSkip(_, _, _, _, _)
FitRagLoopSkip(context, i, rag_chars, kept, rag_budget) ==
    IF i > Len(context) THEN [chars |-> rag_chars, kept |-> kept]
    ELSE LET entry_len == Min(context[i].len, 500) + 50
         IN  IF rag_chars + entry_len > rag_budget
             THEN FitRagLoopSkip(context, i + 1, rag_chars, kept, rag_budget)
             ELSE FitRagLoopSkip(context, i + 1, rag_chars + entry_len,
                                 Append(kept, context[i]), rag_budget)

\* The loop of chat.rs:293-300 over context.iter(), at index i.
RECURSIVE FitRagLoop(_, _, _, _, _)
FitRagLoop(context, i, rag_chars, kept, rag_budget) ==
    IF i > Len(context) THEN [chars |-> rag_chars, kept |-> kept]
    ELSE LET entry_len == Min(context[i].len, 500) + 50
         IN  IF rag_chars + entry_len > rag_budget
             THEN [chars |-> rag_chars, kept |-> kept]
             ELSE FitRagLoop(context, i + 1, rag_chars + entry_len,
                             Append(kept, context[i]), rag_budget)

\* A history loop that pushes the message before it tests the budget.
RECURSIVE FitHistoryLoopTestAfter(_, _, _, _, _)
FitHistoryLoopTestAfter(history, i, history_chars, kept, history_budget) ==
    IF i = 0 THEN [chars |-> history_chars, kept |-> kept]
    ELSE LET msg_len == history[i].len + 20
         IN  IF history_chars + msg_len > history_budget
             THEN [chars |-> history_chars + msg_len, kept |-> Append(kept, history[i])]
             ELSE FitHistoryLoopTestAfter(history, i - 1, history_chars + msg_len,
                                          Append(kept, history[i]), history_budget)

\* A fitter whose history loop tests the budget after the push.
fit_context_budget_test_after(rag, hist) ==
    LET remaining0     == saturating_sub(MAX_CONTEXT_CHARS, SYSTEM_PROMPT_BUDGET)
        history_budget == Min(remaining0, HISTORY_BUDGET)
        h == IF IsSome(hist)
             THEN FitHistoryLoopTestAfter(Unwrap(hist), Len(Unwrap(hist)), 0, <<>>, history_budget)
             ELSE [chars |-> 0, kept |-> <<>>]
        remaining1 == saturating_sub(remaining0, h.chars)
        rag_budget == Min(remaining1, RAG_BUDGET)
        r == IF IsSome(rag)
             THEN FitRagLoop(Unwrap(rag), 1, 0, <<>>, rag_budget)
             ELSE [chars |-> 0, kept |-> <<>>]
    IN  [fitted_rag |-> r.kept, fitted_history |-> Reverse(h.kept)]

\* fit_context_budget (chat.rs:260-304).
fit_context_budget(rag, hist) ==
    LET remaining0     == saturating_sub(MAX_CONTEXT_CHARS, SYSTEM_PROMPT_BUDGET)
        history_budget == Min(remaining0, HISTORY_BUDGET)
        h == IF IsSome(hist)
             THEN FitHistoryLoop(Unwrap(hist), Len(Unwrap(hist)), 0, <<>>, history_budget)
             ELSE [chars |-> 0, kept |-> <<>>]
        remaining1 == saturating_sub(remaining0, h.chars)
        rag_budget == Min(remaining1, RAG_BUDGET)
        r == IF IsSome(rag)
             THEN FitRagLoop(Unwrap(rag), 1, 0, <<>>, rag_budget)
             ELSE [chars |-> 0, kept |-> <<>>]
    IN  [fitted_rag |-> r.kept, fitted_history |-> Reverse(h.kept)]

(***************************************************************************)
(* Inputs of the fitter.                                                   *)
(***************************************************************************)

\* Content lengths of chat messages: with the overhead of 20 they charge 20,
\* 7000, 14000 and 14001.
HistoryLens == { 0, 6980, 13980, 13981 }

\* A history holds at most MaxHistory messages.
MaxHistory == 3

\* Content lengths of retrieval results: they charge 50, 500 and 550.
RagLens == { 0, 450, 9000 }

\* A retrieval list is a run of at most MaxRagRun results of content length
\* 450 followed by at most MaxRagTail results of any length of RagLens.
MaxRagRun == 16

MaxRagTail == 2

\* The items [id, len] of a list of content lengths.
ItemsOf(lens) == [i \in 1..Len(lens) |-> [id |-> i, len |-> lens[i]]]

Histories == { ItemsOf(l) : l \in SeqsUpTo(HistoryLens, MaxHistory) }

RagLists ==
    { ItemsOf([i \in 1..n |-> 450] \o tail) :
          n \in 0..MaxRagRun, tail \in SeqsUpTo(RagLens, MaxRagTail) }

InitBudget ==
    /\ TasksIdle
    /\ StoreIdle
    /\ chat_history \in { None } \cup { Some(h) : h \in Histories }
    /\ rag_context \in { None } \cup { Some(r) : r \in RagLists }
    /\ fitted = None
    /\ text = <<>> /\ emotions = None /\ safety_result = None
    /\ full_response = <<>> /\ augmented = None
    /\ fts_results = <<>> /\ vec_results = <<>> /\ limit = 0 /\ combined = <<>>
    /\ SearchIdle
    /\ ChatIdle

\* One call of fit_context_budget(rag_context, chat_history).
FitContextBudget ==
    /\ fitted = None
    /\ fitted' = Some(fit_context_budget(rag_context, chat_history))
    /\ UNCHANGED <<rag_context, chat_history>>
    /\ UNCHANGED safetyVars
    /\ UNCHANGED fusionVars
    /\ UNCHANGED searchVars
    /\ UNCHANGED chatVars
    /\ UNCHANGED storeVars
    /\ UNCHANGED taskVars

NextBudget == FitContextBudget

SpecBudget == InitBudget /\ [][NextBudget]_vars

(***************************************************************************)
(*                  THE chat_stream COMMAND  (lib.rs:698-875)              *)
(*                                                                         *)
(* One invocation.  An action is the code between two await points.  The   *)
(* collaborators (the connection mutex, the emotion and chat tables, the   *)
(* retrieval, the language-model stream) answer nondeterministically with  *)
(* each outcome their signature allows.                                    *)
(***************************************************************************)

ChatChunkEvent(payload) == [name |-> "chat-chunk", chunk |-> payload, sources |-> None]

ChatDoneEvent(sources) == [name |-> "chat-done", chunk |-> <<>>, sources |-> sources]

ChatErrorEvent == [name |-> "chat-error", chunk |-> <<>>, sources |-> None]

\* A gate that lets every verdict through.
GateBlocksNever(verdict) == FALSE

\* if !safety_result.safe (lib.rs:725).
GateBlocks(verdict) == ~verdict.safe

\* The events of lib.rs:726-736: the intervention, when there is one, as a
\* chat-chunk, then chat-done.
InterventionEvents(verdict) ==
    (IF IsSome(verdict.intervention)
     THEN << ChatChunkEvent(Unwrap(verdict.intervention)) >>
     ELSE <<>>) \o << ChatDoneEvent(None) >>

\* build_prompt_with_sources (chat.rs:117-172): the sources are the fitted
\* results, the messages are the system message built from them, the fitted
\* history and the user message.
build_prompt_with_sources(message, context, history) ==
    LET f == fit_context_budget(context, history)
    IN  [sources  |-> [i \in 1..Len(f.fitted_rag) |-> f.fitted_rag[i].id],
         system   |-> [i \in 1..Min(Len(f.fitted_rag), 5) |-> f.fitted_rag[i].id],
         history  |-> f.fitted_history,
         user     |-> message]

(***************************************************************************)
(* Inputs and collaborator answers of chat_stream.                         *)
(***************************************************************************)

\* A crisis text in mixed case, a distress text, a crisis text that also holds
\* a distress word, and two texts without keywords.
ChatTexts ==
    { FragSuicide, FragHopeless, FragSuicide \o << "-" >> \o FragHopeless,
      FragHarm, FragSelf \o << "-" >> }

JournalIds == { None, Some("a") }

\* What db::emotions::get(..).ok() can give.
StoredEmotions ==
    { None, Some(<<>>) } \cup { Some(<< e >>) : e \in Predictions }

\* What get_rag_context(..).await.ok() can give.
RagOutcomes ==
    { None, Some(<<>>), Some(ItemsOf(<< 450 >>)), Some(ItemsOf(<< 450, 9000 >>)) }

\* What get_recent_for_entry(..).ok() can give.
HistoryOutcomes ==
    { None, Some(<<>>), Some(ItemsOf(<< 6980 >>)) }

\* The text deltas of the model.
Deltas == { "I hear you.", " Tell me more." }

\* The stream yields at most MaxChunks chunks.
MaxChunks == 2

InitChat ==
    /\ TasksIdle
    /\ StoreIdle
    /\ chat_pc = "start"
    /\ chat_in \in [message : ChatTexts, journal_id : JournalIds]
    /\ chat = [emotions |-> None, verdict |-> None, retrievals |-> 0,
               context |-> None, history |-> None, prompt |-> None,
               streams |-> 0, chunks |-> 0, full_response |-> <<>>, ret |-> None]
    /\ events = <<>>
    /\ chat_messages = <<>>
    /\ text = <<>> /\ emotions = None /\ safety_result = None
    /\ full_response = <<>> /\ augmented = None
    /\ fts_results = <<>> /\ vec_results = <<>> /\ limit = 0 /\ combined = <<>>
    /\ SearchIdle
    /\ BudgetIdle

ChatUnchangedOthers ==
    /\ UNCHANGED storeVars
    /\ UNCHANGED taskVars
    /\ UNCHANGED safetyVars
    /\ UNCHANGED fusionVars
    /\ UNCHANGED searchVars
    /\ UNCHANGED budgetVars

\* lib.rs:707-738: the stored emotions are read (pool.get()? may fail), the
\* message is classified, and an unsafe verdict ends the command.
ChatCheckSafety ==
    /\ chat_pc = "start"
    /\ \E lock_ok \in BOOLEAN : \E stored \in StoredEmotions :
          IF IsSome(chat_in.journal_id) /\ ~lock_ok
          THEN /\ chat_pc' = "returned"
               /\ chat' = [chat EXCEPT !.ret = Some(Err("Database"))]
               /\ UNCHANGED events
          ELSE LET emo     == IF IsSome(chat_in.journal_id) THEN stored ELSE None
                   verdict == check_with_emotions(chat_in.message, emo)
               IN  IF GateBlocks(verdict)
                   THEN /\ events' = events \o InterventionEvents(verdict)
                        /\ chat' = [chat EXCEPT !.emotions = emo, !.verdict = Some(verdict),
                                                !.ret = Some(Ok(<<>>))]
                        /\ chat_pc' = "returned"
                   ELSE /\ chat' = [chat EXCEPT !.emotions = emo, !.verdict = Some(verdict)]
                        /\ chat_pc' = "rag"
                        /\ UNCHANGED events
    /\ UNCHANGED <<chat_in, chat_messages>>
    /\ ChatUnchangedOthers

\* lib.rs:741-750: get_rag_context(..).await, its error logged and dropped.
ChatGetRagContext ==
    /\ chat_pc = "rag"
    /\ \E outcome \in RagOutcomes :
          chat' = [chat EXCEPT !.retrievals = @ + 1, !.context = outcome]
    /\ chat_pc' = "prompt"
    /\ UNCHANGED <<chat_in, events, chat_messages>>
    /\ ChatUnchangedOthers

\* lib.rs:752-770: the recent history is read (pool.get()? may fail) and the
\* prompt is built.
ChatBuildPrompt ==
    /\ chat_pc = "prompt"
    /\ \E lock_ok \in BOOLEAN : \E recent \in HistoryOutcomes :
          IF IsSome(chat_in.journal_id) /\ ~lock_ok
          THEN /\ chat_pc' = "returned"
               /\ chat' = [chat EXCEPT !.ret = Some(Err("Database"))]
          ELSE LET hist == IF IsSome(chat_in.journal_id) THEN recent ELSE None
               IN  /\ chat' = [chat EXCEPT
                                  !.history = hist,
                                  !.prompt = Some(build_prompt_with_sources(
                                                     chat_in.message, chat.context, hist))]
                   /\ chat_pc' = "connect"
    /\ UNCHANGED <<chat_in, events, chat_messages>>
    /\ ChatUnchangedOthers

\* lib.rs:773 and 863-871: chat_service.chat_stream(messages).await.
ChatStartStream ==
    /\ chat_pc = "connect"
    /\ \E started \in BOOLEAN :
          IF started
          THEN /\ chat_pc' = "streaming"
               /\ chat' = [chat EXCEPT !.streams = @ + 1]
               /\ UNCHANGED events
          ELSE /\ chat_pc' = "returned"
               /\ chat' = [chat EXCEPT !.streams = @ + 1, !.ret = Some(Ok(<<>>))]
               /\ events' = Append(events, ChatErrorEvent)
    /\ UNCHANGED <<chat_in, chat_messages>>
    /\ ChatUnchangedOthers

\* lib.rs:850-859: the stream yields an error.
ChatStreamError ==
    /\ chat_pc = "streaming"
    /\ events' = Append(events, ChatErrorEvent)
    /\ chat' = [chat EXCEPT !.ret = Some(Ok(<<>>))]
    /\ chat_pc' = "returned"
    /\ UNCHANGED <<chat_in, chat_messages>>
    /\ ChatUnchangedOthers

\* lib.rs:778: stream.next() yields None, the loop ends and the command returns.
ChatStreamEnd ==
    /\ chat_pc = "streaming"
    /\ chat' = [chat EXCEPT !.ret = Some(Ok(<<>>))]
    /\ chat_pc' = "returned"
    /\ UNCHANGED <<chat_in, events, chat_messages>>
    /\ ChatUnchangedOthers

\* lib.rs:780-849: the stream yields a chunk.  Its text, when it has one, is
\* appended and emitted; a chunk marked done is followed by the safety
\* augmentation, the insert of the assistant message (pool.get()? may fail, the
\* result of create is dropped) and chat-done.
ChatStreamChunk ==
    /\ chat_pc = "streaming"
    /\ chat.chunks < MaxChunks
    /\ \E content \in { None } \cup { Some(<< d >>) : d \in Deltas } :
       \E done \in BOOLEAN : \E lock_ok \in BOOLEAN : \E insert_ok \in BOOLEAN :
          LET full1 == IF IsSome(content) THEN chat.full_response \o Unwrap(content)
                       ELSE chat.full_response
              ev1   == IF IsSome(content) THEN Append(events, ChatChunkEvent(Unwrap(content)))
                       ELSE events
              aug   == SafetyAugmentation(full1, Unwrap(chat.verdict))
              ev2   == ev1 \o [i \in 1..Len(aug.chunks) |-> ChatChunkEvent(aug.chunks[i])]
              row   == [journal_id |-> Unwrap(chat_in.journal_id), role |-> "assistant",
                        content |-> aug.full_response,
                        metadata |-> IF Unwrap(chat.prompt).sources # <<>>
                                     THEN Some(Unwrap(chat.prompt).sources) ELSE None]
          IN  IF ~done
              THEN /\ chat' = [chat EXCEPT !.chunks = @ + 1, !.full_response = full1]
                   /\ events' = ev1
                   /\ chat_pc' = "streaming"
                   /\ UNCHANGED chat_messages
              ELSE IF IsSome(chat_in.journal_id) /\ ~lock_ok
              THEN /\ chat' = [chat EXCEPT !.chunks = @ + 1,
                                           !.full_response = aug.full_response,
                                           !.ret = Some(Err("Database"))]
                   /\ events' = ev2
                   /\ chat_pc' = "returned"
                   /\ UNCHANGED chat_messages
              ELSE /\ chat' = [chat EXCEPT !.chunks = @ + 1,
                                           !.full_response = aug.full_response,
                                           !.ret = Some(Ok(<<>>))]
                   /\ events' = Append(ev2, ChatDoneEvent(Some(Unwrap(chat.prompt).sources)))
                   /\ chat_messages' = IF IsSome(chat_in.journal_id) /\ insert_ok
                                       THEN Append(chat_messages, row)
                                       ELSE chat_messages
                   /\ chat_pc' = "returned"
    /\ UNCHANGED chat_in
    /\ ChatUnchangedOthers

NextChat ==
    \/ ChatCheckSafety
    \/ ChatGetRagContext
    \/ ChatBuildPrompt
    \/ ChatStartStream
    \/ ChatStreamChunk
    \/ ChatStreamError
    \/ ChatStreamEnd

SpecChat == InitChat /\ [][NextChat]_vars

(***************************************************************************)
(* The hybrid_search command (lib.rs), get_rag_context (llm/chat.rs) and   *)
(* chat_stream when the embedding model or a retrieval is not available.   *)
(***************************************************************************)

\* What the embedding model can be: its files downloaded or not
\* (models_ready().embedding_downloaded), get_embedding_model() returning Ok or
\* Err, and embed(query) returning Ok or Err.
ModelStates == [downloaded : BOOLEAN, loads : BOOLEAN, embeds : BOOLEAN]

\* lib.rs:515-522 and chat.rs:212-219: the Option of the query embedding.
QueryEmbedding(ml) ==
    IF ml.downloaded
    THEN IF ml.loads
         THEN (IF ml.embeds THEN Some(Embedding(0)) ELSE None)
         ELSE None
    ELSE None

\* A hybrid_search command that needs the query embedding.
hybrid_search_command_strict(db, ml, q, lim, incl, lock_ok, eknn, cknn, order, fuse_order) ==
    LET embedding == QueryEmbedding(ml)
    IN  IF ~lock_ok THEN Err("Database")
        ELSE IF IsSome(embedding)
        THEN hybrid_search(db, q, embedding, lim, incl, eknn, cknn, order, fuse_order)
        ELSE Err("ModelNotLoaded")

\* The hybrid_search command (lib.rs:502-531); lock_ok is whether pool.get()
\* gets the connection.
hybrid_search_command(db, ml, q, lim, incl, lock_ok, eknn, cknn, order, fuse_order) ==
    LET embedding == QueryEmbedding(ml)
    IN  IF ~lock_ok THEN Err("Database")
        ELSE IF IsSome(embedding)
        THEN hybrid_search(db, q, embedding, lim, incl, eknn, cknn, order, fuse_order)
        ELSE fts_only_search(db.fts_index, db.archived, q, lim, incl)

\* chat.rs:198-209: the current entry, when it is given and has a row, as the
\* first result.
CurrentEntryFirst(db, current) ==
    IF IsSome(current) /\ Unwrap(current) \in db.journals
    THEN << [journal  |-> JournalRow(Unwrap(current), db.archived),
             score    |-> [num |-> 1, den |-> 1],
             fts_rank |-> Some(1),
             vec_rank |-> Some(1)] >>
    ELSE <<>>

\* chat.rs:231-235: the results without the current entry.
RECURSIVE ExcludeCurrent(_, _)
ExcludeCurrent(results, current) ==
    IF results = <<>> THEN <<>>
    ELSE (IF current = None \/ Head(results).journal.id # Unwrap(current)
          THEN << Head(results) >> ELSE <<>>)
             \o ExcludeCurrent(Tail(results), current)

\* get_rag_context (chat.rs:188-240); lock1 and lock2 are whether the two
\* pool.get() get the connection.
get_rag_context(db, ml, q, current, lim, lock1, lock2, eknn, cknn, order, fuse_order) ==
    IF IsSome(current) /\ ~lock1 THEN Err("Database")
    ELSE LET results   == CurrentEntryFirst(db, current)
             embedding == QueryEmbedding(ml)
         IN  IF ~lock2 THEN Err("Database")
             ELSE LET search_results ==
                          IF IsSome(embedding)
                          THEN hybrid_search(db, q, embedding, lim, FALSE,
                                             eknn, cknn, order, fuse_order)
                          ELSE fts_only_search(db.fts_index, db.archived, q, lim, FALSE)
                  IN  IF ~search_results.ok THEN search_results
                      ELSE Ok(Truncate(results \o ExcludeCurrent(search_results.val, current),
                                       lim))

\* The stores of these calls: entry a matches the query and has a vector; entry
\* b matches without a vector, or is archived, or does not match and has a
\* vector.
DegradedStores ==
    LET withA == store_embedding(journals_create(EmptyDb, "a", 1), "a", Embedding(1)).db
    IN  { journals_create(withA, "b", 1),
          journals_archive(store_embedding(journals_create(withA, "b", 2), "b",
                                           Embedding(2)).db, "b"),
          store_embedding(journals_create(withA, "b", 0), "b", Embedding(2)).db }

\* The queries of these calls: a word, and a blank.
DegradedQueries == { StoreQuery, << " " >> }

\* The entry the chat is about: none, one with a row, one without.
CurrentEntries == { None, Some("a"), Some("b"), Some("c") }

InitDegraded ==
    /\ TasksIdle
    /\ store \in DegradedStores
    /\ created = 2
    /\ store_out = None
    /\ chat_pc = "start"
    /\ chat_in \in [message : ChatTexts, journal_id : JournalIds]
    /\ chat = [emotions |-> None, verdict |-> None, retrievals |-> 0,
               context |-> None, history |-> None, prompt |-> None,
               streams |-> 0, chunks |-> 0, full_response |-> <<>>, ret |-> None]
    /\ events = <<>>
    /\ chat_messages = <<>>
    /\ text = <<>> /\ emotions = None /\ safety_result = None
    /\ full_response = <<>> /\ augmented = None
    /\ fts_results = <<>> /\ vec_results = <<>> /\ limit = 0 /\ combined = <<>>
    /\ SearchIdle
    /\ BudgetIdle

\* One call of the hybrid_search command.
HybridSearchCommand ==
    /\ chat_pc = "start"
    /\ store_out = None
    /\ \E ml \in ModelStates : \E q \in DegradedQueries :
       \E lim \in 1..MaxVectorLimit : \E incl \in BOOLEAN : \E lock_ok \in BOOLEAN :
       \E eknn \in AscendingOrders(store.journal_embeddings) :
       \E cknn \in AscendingOrders(store.chunk_embeddings) :
       \E order \in Orders(CreatedIds) : \E fuse_order \in Orders(CreatedIds) :
          store_out' = Some([op               |-> "hybrid_search_command",
                             ml               |-> ml,
                             query            |-> q,
                             current          |-> None,
                             limit            |-> lim,
                             include_archived |-> incl,
                             locks            |-> << lock_ok >>,
                             result           |-> hybrid_search_command(store, ml, q, lim,
                                                      incl, lock_ok, eknn, cknn, order,
                                                      fuse_order)])
    /\ UNCHANGED <<store, created>>
    /\ VectorUnchangedOthers

\* One call of get_rag_context.
GetRagContext ==
    /\ chat_pc = "start"
    /\ store_out = None
    /\ \E ml \in ModelStates : \E q \in DegradedQueries : \E current \in CurrentEntries :
       \E lim \in 1..MaxVectorLimit : \E lock1 \in BOOLEAN : \E lock2 \in BOOLEAN :
       \E eknn \in AscendingOrders(store.journal_embeddings) :
       \E cknn \in AscendingOrders(store.chunk_embeddings) :
       \E order \in Orders(CreatedIds) : \E fuse_order \in Orders(CreatedIds) :
          store_out' = Some([op               |-> "get_rag_context",
                             ml               |-> ml,
                             query            |-> q,
                             current          |-> current,
                             limit            |-> lim,
                             include_archived |-> FALSE,
                             locks            |-> << IsSome(current) => lock1, lock2 >>,
                             result           |-> get_rag_context(store, ml, q, current, lim,
                                                      lock1, lock2, eknn, cknn, order,
                                                      fuse_order)])
    /\ UNCHANGED <<store, created>>
    /\ VectorUnchangedOthers

\* The start of one chat_stream.  A behaviour follows one operation: a search
\* call or a chat.
DegradedChatStart ==
    /\ store_out = None
    /\ ChatCheckSafety

NextDegraded ==
    \/ HybridSearchCommand
    \/ GetRagContext
    \/ DegradedChatStart
    \/ ChatGetRagContext
    \/ ChatBuildPrompt
    \/ ChatStartStream
    \/ ChatStreamChunk
    \/ ChatStreamError
    \/ ChatStreamEnd

SpecDegraded == InitDegraded /\ [][NextDegraded]_vars

(***************************************************************************)
(*                  CHUNKER  (ml/embeddings.rs)                            *)
(*                                                                         *)
(* A text is the sequence of its characters.  str::len and the index of a  *)
(* string slice count bytes of the UTF-8 encoding, so every character has  *)
(* its width; "E" stands for a character of two bytes (such as an accented *)
(* letter).  A slice that starts inside a character panics.                *)
(***************************************************************************)

\* The number of bytes of a character.
Utf8Width(c) == IF c = "E" THEN 2 ELSE 1

\* str::len: the number of bytes.
RECURSIVE ByteLen(_)
ByteLen(s) == IF s = <<>> THEN 0 ELSE Utf8Width(Head(s)) + ByteLen(Tail(s))

\* &s[k..]: the characters from the byte offset k on, or None for the panic of
\* an offset that is not a character boundary.
SliceFrom(s, k) ==
    LET starts == { i \in 1..(Len(s) + 1) : ByteLen(SubSeq(s, 1, i - 1)) = k }
    IN  IF starts = {} THEN None
        ELSE Some(SubSeq(s, CHOOSE i \in starts : TRUE, Len(s)))

\* The characters [.!?] of the sentence pattern.
IsSentenceEnd(c) == c \in { ".", "!", "?" }

\* The first position from i on that holds no white space (no line feed, when
\* newlines_only), Len(s) + 1 when there is none.
RECURSIVE SkipWhile(_, _, _)
SkipWhile(s, i, newlines_only) ==
    IF i > Len(s) THEN i
    ELSE IF (IF newlines_only THEN s[i] = "\n" ELSE IsWhitespace(s[i]))
         THEN SkipWhile(s, i + 1, newlines_only)
         ELSE i

\* Regex::split for (?:[.!?]\s+|\n\n+) from position i on, cur being the piece
\* read so far: the pieces of the text between the matches.
RECURSIVE SentenceSplit(_, _, _)
SentenceSplit(s, i, cur) ==
    IF i > Len(s) THEN << cur >>
    ELSE IF IsSentenceEnd(s[i]) /\ i + 1 <= Len(s) /\ IsWhitespace(s[i + 1])
         THEN << cur >> \o SentenceSplit(s, SkipWhile(s, i + 1, FALSE), <<>>)
    ELSE IF s[i] = "\n" /\ i + 1 <= Len(s) /\ s[i + 1] = "\n"
         THEN << cur >> \o SentenceSplit(s, SkipWhile(s, i, TRUE), <<>>)
    ELSE SentenceSplit(s, i + 1, Append(cur, s[i]))

\* str::trim.
RECURSIVE TrimStart(_)
TrimStart(s) ==
    IF s # <<>> /\ IsWhitespace(Head(s)) THEN TrimStart(Tail(s)) ELSE s

RECURSIVE TrimEnd(_)
TrimEnd(s) ==
    IF s # <<>> /\ IsWhitespace(s[Len(s)]) THEN TrimEnd(SubSeq(s, 1, Len(s) - 1)) ELSE s

Trim(s) == TrimEnd(TrimStart(s))

\* The value of a call that panicked, and of one that returned chunks.
Panicked == [panic |-> TRUE, chunks |-> <<>>]

\* A return that keeps the first chunk only.
ReturnedFirstOnly(chunks) == [panic |-> FALSE, chunks |-> SubSeq(chunks, 1, 1)]

Returned(chunks) == [panic |-> FALSE, chunks |-> chunks]

\* The loop of embeddings.rs:28-71 from sentence i on, and the code after it
\* (73-84).
RECURSIVE ChunkLoop(_, _, _, _, _, _, _, _)
ChunkLoop(input, sentences, i, chunks, current_chunk, overlap_buffer, max_chars, overlap_chars) ==
    IF i > Len(sentences)
    THEN LET all == IF current_chunk # <<>> THEN Append(chunks, current_chunk) ELSE chunks
         IN  Returned(IF all = <<>> THEN << input >> ELSE all)
    ELSE LET sentence == Trim(sentences[i])
         IN  IF sentence = <<>>
             THEN ChunkLoop(input, sentences, i + 1, chunks, current_chunk, overlap_buffer,
                            max_chars, overlap_chars)
             ELSE LET sentence_with_punct ==
                          IF IsSentenceEnd(sentence[Len(sentence)])
                          THEN sentence ELSE sentence \o << "." >>
                      test_len ==
                          IF current_chunk = <<>>
                          THEN ByteLen(sentence_with_punct)
                          ELSE ByteLen(current_chunk) + 1 + ByteLen(sentence_with_punct)
                  IN  IF test_len > max_chars /\ current_chunk # <<>>
                      THEN LET tail == IF ByteLen(overlap_buffer) > overlap_chars
                                       THEN SliceFrom(overlap_buffer,
                                                ByteLen(overlap_buffer) - overlap_chars)
                                       ELSE Some(overlap_buffer)
                           IN  IF tail = None THEN Panicked
                               ELSE LET start == IF Unwrap(tail) # <<>>
                                                 THEN Unwrap(tail) \o << " " >>
                                                 ELSE <<>>
                                        next  == IF start = <<>>
                                                 THEN sentence_with_punct
                                                 ELSE start \o << " " >> \o sentence_with_punct
                                    IN  ChunkLoop(input, sentences, i + 1,
                                                  Append(chunks, current_chunk), next, next,
                                                  max_chars, overlap_chars)
                      ELSE LET next == IF current_chunk = <<>>
                                       THEN sentence_with_punct
                                       ELSE current_chunk \o << " " >> \o sentence_with_punct
                           IN  ChunkLoop(input, sentences, i + 1, chunks, next, next,
                                         max_chars, overlap_chars)

\* chunk_text (embeddings.rs:14-87).
chunk_text(input, max_chars, overlap_chars) ==
    IF ByteLen(input) <= max_chars
    THEN Returned(<< input >>)
    ELSE ChunkLoop(input, SentenceSplit(input, 1, <<>>), 1, <<>>, <<>>, <<>>,
                   max_chars, overlap_chars)

\* The texts have at most MaxTextLen characters.
MaxTextLen == 5

\* The characters of the texts: a letter, a two-byte letter, a full stop, a
\* space and a line feed.
TextChars == { "a", "E", ".", " ", "\n" }

ChunkerTexts == UNION { [1..n -> TextChars] : n \in 0..MaxTextLen }

\* The sizes of the calls (max_chars, overlap_chars).
ChunkSizes == { << 3, 1 >>, << 3, 2 >>, << 4, 0 >>, << 6, 2 >> }

InitChunk ==
    /\ TasksIdle
    /\ StoreIdle
    /\ text = <<>> /\ emotions = None /\ safety_result = None
    /\ full_response = <<>> /\ augmented = None
    /\ fts_results = <<>> /\ vec_results = <<>> /\ limit = 0 /\ combined = <<>>
    /\ SearchIdle
    /\ BudgetIdle
    /\ ChatIdle

\* One call of chunk_text(text, max_chars, overlap_chars).
ChunkText ==
    /\ store_out = None
    /\ \E t \in ChunkerTexts : \E sizes \in ChunkSizes :
          store_out' = Some([op            |-> "chunk_text",
                             text          |-> t,
                             max_chars     |-> sizes[1],
                             overlap_chars |-> sizes[2],
                             result        |-> chunk_text(t, sizes[1], sizes[2])])
    /\ UNCHANGED <<store, created>>
    /\ VectorUnchangedOthers

NextChunk == ChunkText

SpecChunk == InitChunk /\ [][NextChunk]_vars

(***************************************************************************)
(*        PROMPT  (llm/chat.rs: build_prompt_with_sources)                 *)
(*                                                                         *)
(* A text is held as its length in bytes.  The contents of the entries     *)
(* hold no space, so a truncated snippet is cut at max_len.                *)
(***************************************************************************)

\* SYSTEM_PROMPT.len() (chat.rs:307-324).
SYSTEM_PROMPT_LEN == 990

\* "\n\nRELEVANT PAST ENTRIES:\n".len().
RAG_HEADER_LEN == 25

\* The length of "<journal date=\"{}\">\n{}\n</journal>\n" without its two
\* arguments.
JOURNAL_TAGS_LEN == 30

\* The lengths of the Display of created_at: without and with a fraction of
\* a second.
DateLens == { 23, 33 }

\* truncate_snippet (chat.rs:243-255) on a content without a space: the
\* content, or its first max_len characters and "...".
truncate_snippet(len, max_len) == IF len <= max_len THEN len ELSE max_len + 3

\* The sum of the values of a sequence of numbers.
RECURSIVE SumOf(_)
SumOf(ns) == IF ns = <<>> THEN 0 ELSE Head(ns) + SumOf(Tail(ns))

\* system_content (chat.rs:139-153): the system prompt and, for the first five
\* fitted results, the tagged snippet.
SystemContentLen(fitted_rag, date_len) ==
    SYSTEM_PROMPT_LEN
        + (IF fitted_rag # <<>>
           THEN RAG_HEADER_LEN
                    + SumOf([i \in 1..Min(Len(fitted_rag), 5) |->
                                JOURNAL_TAGS_LEN + date_len
                                    + truncate_snippet(fitted_rag[i].len, 200)])
           ELSE 0)

\* The messages of build_prompt_with_sources and of build_prompt_with_history
\* (chat.rs:64-113, 136-169), each with the length of its content.
PromptMessages(message_len, context, history, date_len) ==
    LET f == fit_context_budget(context, history)
    IN  << [role |-> "system", len |-> SystemContentLen(f.fitted_rag, date_len)] >>
            \o [i \in 1..Len(f.fitted_history) |->
                   [role |-> "history", len |-> f.fitted_history[i].len]]
            \o << [role |-> "user", len |-> message_len] >>

\* The lengths of the user messages.
MessageLens == { 0, 8000, 24001 }

\* One call of build_prompt_with_sources(user_message, rag_context,
\* chat_history).
BuildPromptWithSources ==
    /\ store_out = None
    /\ \E message_len \in MessageLens : \E date_len \in DateLens :
          store_out' = Some([op          |-> "build_prompt_with_sources",
                             message_len |-> message_len,
                             prompt      |-> build_prompt_with_sources(message_len,
                                                 rag_context, chat_history),
                             messages    |-> PromptMessages(message_len, rag_context,
                                                            chat_history, date_len)])
    /\ UNCHANGED <<store, created>>
    /\ VectorUnchangedOthers

NextPrompt == BuildPromptWithSources

SpecPrompt == InitBudget /\ [][NextPrompt]_vars

(***************************************************************************)
(* generate_embedding_inner (lib.rs:562-625) step by step.  Each block that *)
(* takes the connection is one step; the task can end between two steps    *)
(* (the application is closed, the task panics).  store_out holds the run. *)
(***************************************************************************)

\* At most MaxRuns runs are started.
MaxRuns == 3

\* The entries of the store and their contents: at most 500 bytes, more than
\* 500 bytes that chunk_text returns as one chunk, more than 500 bytes that it
\* returns as two chunks.
GenerateIds == { "a", "b", "c" }

ContentOf(id) ==
    IF id = "a" THEN "long" ELSE IF id = "b" THEN "short" ELSE "long_single"

\* chunk_text(&content, 500, 100).len() (lib.rs:593).
ChunkCount(content) == IF content = "long" THEN 2 ELSE 1

\* lib.rs:596-612: chunk_data holds the chunks whose embed returned Ok, each
\* with its index in the chunks.
RECURSIVE ChunkDataOf(_, _, _)
ChunkDataOf(ds, embedded, i) ==
    IF i > Len(ds) THEN <<>>
    ELSE (IF i \in embedded
          THEN << [chunk_index |-> i - 1, embedding |-> Embedding(ds[i])] >>
          ELSE <<>>) \o ChunkDataOf(ds, embedded, i + 1)

Run == Unwrap(store_out)

Running(pc) == IsSome(store_out) /\ Run.op = "generate_embedding_inner" /\ Run.pc = pc

InitGenerate ==
    /\ TasksIdle
    /\ store = journals_create(journals_create(journals_create(EmptyDb, "a", 0), "b", 0),
                               "c", 0)
    /\ created = 3
    /\ store_out = None
    /\ text = <<>> /\ emotions = None /\ safety_result = None
    /\ full_response = <<>> /\ augmented = None
    /\ fts_results = <<>> /\ vec_results = <<>> /\ limit = 0 /\ combined = <<>>
    /\ SearchIdle
    /\ BudgetIdle
    /\ ChatIdle

\* generate_entry_embedding (lib.rs:536-553) spawns generate_embedding_inner for
\* an entry; the runs follow one another.
GenerateStart ==
    /\ store_out = None \/ Running("returned") \/ Running("ended")
    /\ (IF IsSome(store_out) THEN Run.run ELSE 0) < MaxRuns
    /\ \E id \in GenerateIds :
          store_out' = Some([op |-> "generate_embedding_inner", id |-> id,
                             run |-> (IF IsSome(store_out) THEN Run.run ELSE 0) + 1,
                             pc |-> "check", before |-> store, skipped |-> {},
                             ret |-> None])
    /\ UNCHANGED <<store, created>>
    /\ VectorUnchangedOthers

\* lib.rs:564-569: has_embedding, and the early return.
GenerateCheck ==
    /\ Running("check")
    /\ store_out' = IF has_embedding(store, Run.id)
                    THEN Some([Run EXCEPT !.pc = "returned", !.ret = Some(Ok(<<>>))])
                    ELSE Some([Run EXCEPT !.pc = "embed"])
    /\ UNCHANGED <<store, created>>
    /\ VectorUnchangedOthers

\* lib.rs:572-581: the content is read, the model is fetched and embeds the
\* content; the model can fail to load or to embed.
GenerateEmbed ==
    /\ Running("embed")
    /\ \E model_ok \in BOOLEAN :
          store_out' = IF model_ok
                       THEN Some([Run EXCEPT !.pc = "store"])
                       ELSE Some([Run EXCEPT !.pc = "returned", !.ret = Some(Err("Ml"))])
    /\ UNCHANGED <<store, created>>
    /\ VectorUnchangedOthers

\* lib.rs:584-594: store_embedding, then the test of the length of the content
\* and of the number of chunks.
GenerateStoreEntry ==
    /\ Running("store")
    /\ \E d \in EntryDistances :
          LET r == store_embedding(store, Run.id, Embedding(d))
          IN  /\ store' = r.db
              /\ store_out' =
                    IF ~r.result.ok
                    THEN Some([Run EXCEPT !.pc = "returned", !.ret = Some(r.result)])
                    ELSE IF ContentOf(Run.id) # "short" /\ ChunkCount(ContentOf(Run.id)) > 1
                    THEN Some([Run EXCEPT !.pc = "chunks"])
                    ELSE Some([Run EXCEPT !.pc = "returned", !.ret = Some(Ok(<<>>))])
    /\ UNCHANGED created
    /\ VectorUnchangedOthers

\* lib.rs:596-620: every chunk is embedded, a failure is logged and the chunk
\* left out; the chunks embedded are stored when there is one.
GenerateStoreChunks ==
    /\ Running("chunks")
    /\ \E ds \in ChunkDistanceLists \ { <<>> } : \E embedded \in SUBSET (1..Len(ds)) :
          LET chunk_data == ChunkDataOf(ds, embedded, 1)
              r == IF chunk_data # <<>>
                   THEN store_chunk_embeddings(store, Run.id, chunk_data)
                   ELSE [db |-> store, result |-> Ok(<<>>)]
          IN  /\ store' = r.db
              /\ store_out' = Some([Run EXCEPT !.pc = "returned",
                                               !.skipped = (1..Len(ds)) \ embedded,
                                               !.ret = Some(r.result)])
    /\ UNCHANGED created
    /\ VectorUnchangedOthers

\* The task ends between two steps: it never returns.
GenerateEnds ==
    /\ Running("check") \/ Running("embed") \/ Running("store") \/ Running("chunks")
    /\ store_out' = Some([Run EXCEPT !.pc = "ended"])
    /\ UNCHANGED <<store, created>>
    /\ VectorUnchangedOthers

NextGenerate ==
    \/ GenerateStart
    \/ GenerateCheck
    \/ GenerateEmbed
    \/ GenerateStoreEntry
    \/ GenerateStoreChunks
    \/ GenerateEnds

SpecGenerate == InitGenerate /\ [][NextGenerate]_vars

(***************************************************************************)
(* The async tasks of the commands, the connection mutex (DbPool, a        *)
(* std::sync::Mutex) and the model cache (MlState, a tokio RwLock around   *)
(* an Option).  A task is a program of operations; it runs on a worker     *)
(* thread of the runtime or is suspended at an await.  Blocking on the     *)
(* connection mutex keeps the worker thread; waiting for the model lock    *)
(* suspends the task.                                                      *)
(***************************************************************************)

\* The number of tasks and of worker threads of the runtime.
MaxTasks == 3

MaxWorkers == 2

TaskIds == 1..MaxTasks

Models == { "embedding", "sentiment" }

\* An operation of a program.  exit: the function can return right after it
\* (for a load: it returns when the load fails, the ? after the call).
Op(name) == [op |-> name, model |-> "none", exit |-> FALSE]

ExitOp(name) == [op |-> name, model |-> "none", exit |-> TRUE]

ModelOp(name, model, exit) == [op |-> name, model |-> model, exit |-> exit]

\* MlState::get_embedding_model and get_sentiment_model (ml/mod.rs:101-150):
\* read().await, the test under the read guard, write().await, the second test
\* and the load under the write guard.
GetModelProgram(model, returns_on_err) ==
    << ModelOp("read", model, FALSE), ModelOp("read_check", model, FALSE),
       ModelOp("write", model, FALSE), ModelOp("load", model, returns_on_err) >>

\* generate_embedding_inner (lib.rs:562-625): the block of has_embedding, the
\* block of journals::get, the model, the block of store_embedding, the block
\* of store_chunk_embeddings.
GenerateEmbeddingInnerProgram ==
    << Op("lock"), ExitOp("unlock"), Op("lock"), ExitOp("unlock") >>
    \o GetModelProgram("embedding", TRUE)
    \o << Op("lock"), ExitOp("unlock"), Op("lock"), Op("unlock") >>

\* get_entry_emotions (lib.rs:462-499): the block of db::emotions::get, the
\* block of journals::get, the model, the block of db::emotions::store.
GetEntryEmotionsProgram ==
    << Op("lock"), ExitOp("unlock"), Op("lock"), ExitOp("unlock") >>
    \o GetModelProgram("sentiment", TRUE)
    \o << Op("lock"), Op("unlock") >>

\* The hybrid_search command (lib.rs:503-529): models_ready().await, the
\* model, then pool.get() and the search; the guard is dropped at the return.
HybridSearchCommandProgram ==
    << Op("await") >> \o GetModelProgram("embedding", FALSE)
    \o << Op("lock"), Op("unlock") >>

\* get_rag_context with the guard of the current entry not in a block of its
\* own: it lives until the function returns.
GetRagContextProgramGuardKept ==
    << Op("lock"), Op("await") >>
    \o GetModelProgram("embedding", FALSE)
    \o << Op("unlock") >>

\* get_rag_context (chat.rs:188-240): the block of the current entry,
\* models_ready().await, the model, then pool.get() and the search.
GetRagContextProgram ==
    << Op("lock"), Op("unlock"), Op("await") >>
    \o GetModelProgram("embedding", FALSE)
    \o << Op("lock"), Op("unlock") >>

\* chat_stream (lib.rs:698-875): the block of the stored emotions and the
\* safety check, get_rag_context(..).await, the block of the history,
\* chat_stream(messages).await, stream.next().await for a chunk and for the
\* chunk marked done, and the block that inserts the assistant message.
ChatStreamProgram ==
    << Op("lock"), ExitOp("unlock") >>
    \o GetRagContextProgram
    \o << Op("lock"), Op("unlock"), ExitOp("await"), ExitOp("await"), ExitOp("await"),
          Op("lock"), Op("unlock") >>

\* The task t before it is spawned.
NewTask(program) ==
    [program |-> program, pc |-> 1, status |-> "new", ret |-> None, attempt |-> "none"]

CurOp(t) == tasks[t].program[tasks[t].pc]

At(t, status, name) ==
    /\ tasks[t].status = status
    /\ tasks[t].pc <= Len(tasks[t].program)
    /\ CurOp(t).op = name

\* A worker thread has no task.
FreeWorker == Cardinality({ t \in TaskIds : tasks[t].status = "running" }) < MaxWorkers

\* The task after n operations more, and after its return.
AdvanceBy(task, n) ==
    IF task.pc + n > Len(task.program)
    THEN [task EXCEPT !.pc = Len(task.program) + 1, !.status = "done"]
    ELSE [task EXCEPT !.pc = @ + n, !.status = "running"]

Finish(task) == [task EXCEPT !.pc = Len(task.program) + 1, !.status = "done"]

\* What the task can be after the operation op: at the next one, or returned.
AfterOp(task, op) ==
    { AdvanceBy(task, 1) } \cup (IF op.exit THEN { Finish(task) } ELSE {})

\* The locks and the cache of the models before any call.
NoModelLoaded ==
    /\ model_lock = [m \in Models |-> [readers |-> {}, writer |-> None]]
    /\ model_cache = [m \in Models |-> None]
    /\ loads = [m \in Models |-> 0]

TaskUnchangedOthers ==
    /\ UNCHANGED safetyVars
    /\ UNCHANGED fusionVars
    /\ UNCHANGED searchVars
    /\ UNCHANGED budgetVars
    /\ UNCHANGED chatVars
    /\ UNCHANGED storeVars

\* The runtime polls the task for the first time.
TaskStart(t) ==
    /\ tasks[t].status = "new"
    /\ FreeWorker
    /\ tasks' = [tasks EXCEPT ![t].status = "running"]
    /\ UNCHANGED <<conn_lock, model_lock, model_cache, loads>>
    /\ TaskUnchangedOthers

\* pool.get() (db/mod.rs:25-32): Mutex::lock returns when no guard is alive;
\* until then the thread of the task is blocked.
ConnLock(t) ==
    /\ At(t, "running", "lock")
    /\ conn_lock = None
    /\ conn_lock' = Some(t)
    /\ tasks' = [tasks EXCEPT ![t] = AdvanceBy(@, 1)]
    /\ UNCHANGED <<model_lock, model_cache, loads>>
    /\ TaskUnchangedOthers

\* The guard goes out of scope, at the end of its block or at a return.
ConnUnlock(t) ==
    /\ At(t, "running", "unlock")
    /\ conn_lock' = IF conn_lock = Some(t) THEN None ELSE conn_lock
    /\ \E next \in AfterOp(tasks[t], CurOp(t)) : tasks' = [tasks EXCEPT ![t] = next]
    /\ UNCHANGED <<model_lock, model_cache, loads>>
    /\ TaskUnchangedOthers

\* An .await on a future other than a lock: it is ready at once, or the task
\* is suspended and its worker thread is free for another task.
AwaitPoint(t) ==
    /\ At(t, "running", "await")
    /\ \/ \E next \in AfterOp(tasks[t], CurOp(t)) : tasks' = [tasks EXCEPT ![t] = next]
       \/ tasks' = [tasks EXCEPT ![t].status = "suspended"]
    /\ UNCHANGED <<conn_lock, model_lock, model_cache, loads>>
    /\ TaskUnchangedOthers

\* self.embedding_model.read().await (ml/mod.rs:103): the read guard is
\* granted when no write guard is alive, else the task is suspended.
ModelRead(t) ==
    /\ At(t, "running", "read")
    /\ LET m == CurOp(t).model
       IN  IF model_lock[m].writer = None
           THEN /\ model_lock' = [model_lock EXCEPT ![m].readers = @ \cup {t}]
                /\ tasks' = [tasks EXCEPT ![t] = AdvanceBy(@, 1)]
           ELSE /\ tasks' = [tasks EXCEPT ![t].status = "suspended"]
                /\ UNCHANGED model_lock
    /\ UNCHANGED <<conn_lock, model_cache, loads>>
    /\ TaskUnchangedOthers

\* ml/mod.rs:104-107: a cached handle is returned; the read guard is dropped
\* at the end of the block.
ModelReadCheck(t) ==
    /\ At(t, "running", "read_check")
    /\ LET m == CurOp(t).model
       IN  /\ model_lock' = [model_lock EXCEPT ![m].readers = @ \ {t}]
           /\ tasks' = IF IsSome(model_cache[m])
                       THEN [tasks EXCEPT ![t] =
                               AdvanceBy([@ EXCEPT !.ret = Some(Ok(Unwrap(model_cache[m])))], 3)]
                       ELSE [tasks EXCEPT ![t] = AdvanceBy(@, 1)]
    /\ UNCHANGED <<conn_lock, model_cache, loads>>
    /\ TaskUnchangedOthers

\* self.embedding_model.write().await (ml/mod.rs:110): the write guard is
\* granted when no guard is alive, else the task is suspended.
ModelWrite(t) ==
    /\ At(t, "running", "write")
    /\ LET m == CurOp(t).model
       IN  IF model_lock[m].writer = None /\ model_lock[m].readers = {}
           THEN /\ model_lock' = [model_lock EXCEPT ![m].writer = Some(t)]
                /\ tasks' = [tasks EXCEPT ![t] = AdvanceBy(@, 1)]
           ELSE /\ tasks' = [tasks EXCEPT ![t].status = "suspended"]
                /\ UNCHANGED model_lock
    /\ UNCHANGED <<conn_lock, model_cache, loads>>
    /\ TaskUnchangedOthers

\* The second test without effect: the cache is taken to be empty.
CachedUnderWriteGuardIgnored(cache) == None

\* ml/mod.rs:113: guard.as_ref() under the write guard.
CachedUnderWriteGuard(cache) == cache

\* ml/mod.rs:113-123: the second test, then EmbeddingModel::load, which
\* succeeds or fails; on success the handle is put into the cache.  The write
\* guard is dropped at the return.
ModelLoad(t) ==
    /\ At(t, "running", "load")
    /\ LET m      == CurOp(t).model
           cached == CachedUnderWriteGuard(model_cache[m])
       IN  /\ model_lock' = [model_lock EXCEPT ![m].writer = None]
           /\ IF IsSome(cached)
              THEN /\ tasks' = [tasks EXCEPT ![t] =
                                  AdvanceBy([@ EXCEPT !.ret = Some(Ok(Unwrap(cached)))], 1)]
                   /\ UNCHANGED <<model_cache, loads>>
              ELSE \E loaded \in BOOLEAN :
                      IF loaded
                      THEN /\ loads' = [loads EXCEPT ![m] = @ + 1]
                           /\ model_cache' = [model_cache EXCEPT ![m] = Some(loads[m] + 1)]
                           /\ tasks' = [tasks EXCEPT ![t] =
                                          AdvanceBy([@ EXCEPT !.ret = Some(Ok(loads[m] + 1)),
                                                              !.attempt = "ok"], 1)]
                      ELSE /\ UNCHANGED <<model_cache, loads>>
                           /\ tasks' = [tasks EXCEPT ![t] =
                                          LET failed == [@ EXCEPT !.ret = Some(Err("Ml")),
                                                                  !.attempt = "failed"]
                                          IN  IF CurOp(t).exit THEN Finish(failed)
                                              ELSE AdvanceBy(failed, 1)]
    /\ UNCHANGED conn_lock
    /\ TaskUnchangedOthers

\* A suspended task is polled again, on a free worker thread: the future it
\* awaited is ready, or the model lock it waited for is granted to it.
TaskResume(t) ==
    /\ tasks[t].status = "suspended"
    /\ FreeWorker
    /\ LET op == CurOp(t)
           m  == op.model
       IN  IF op.op = "read"
           THEN /\ model_lock[m].writer = None
                /\ model_lock' = [model_lock EXCEPT ![m].readers = @ \cup {t}]
                /\ tasks' = [tasks EXCEPT ![t] = AdvanceBy(@, 1)]
           ELSE IF op.op = "write"
           THEN /\ model_lock[m].writer = None /\ model_lock[m].readers = {}
                /\ model_lock' = [model_lock EXCEPT ![m].writer = Some(t)]
                /\ tasks' = [tasks EXCEPT ![t] = AdvanceBy(@, 1)]
           ELSE /\ \E next \in AfterOp(tasks[t], op) : tasks' = [tasks EXCEPT ![t] = next]
                /\ UNCHANGED model_lock
    /\ UNCHANGED <<conn_lock, model_cache, loads>>
    /\ TaskUnchangedOthers

\* ---- concurrent calls of get_embedding_model

InitModelCache ==
    /\ tasks = [t \in TaskIds |-> NewTask(GetModelProgram("embedding", TRUE))]
    /\ conn_lock = None
    /\ NoModelLoaded
    /\ StoreIdle
    /\ text = <<>> /\ emotions = None /\ safety_result = None
    /\ full_response = <<>> /\ augmented = None
    /\ fts_results = <<>> /\ vec_results = <<>> /\ limit = 0 /\ combined = <<>>
    /\ SearchIdle
    /\ BudgetIdle
    /\ ChatIdle

NextModelCache ==
    \E t \in TaskIds :
        \/ TaskStart(t)
        \/ ModelRead(t)
        \/ ModelReadCheck(t)
        \/ ModelWrite(t)
        \/ ModelLoad(t)
        \/ TaskResume(t)

SpecModelCache == InitModelCache /\ [][NextModelCache]_vars

\* ---- the commands side by side

\* The commands that run side by side.
TaskPrograms ==
    << GenerateEmbeddingInnerProgram, GetEntryEmotionsProgram, HybridSearchCommandProgram,
       GetRagContextProgram, ChatStreamProgram >>

\* Every choice of MaxTasks commands, one command possibly several times; the
\* tasks are numbered in the order of their commands in TaskPrograms.
InitTasks ==
    /\ tasks \in { [t \in TaskIds |-> NewTask(TaskPrograms[f[t]])] :
                      f \in { g \in [TaskIds -> 1..Len(TaskPrograms)] :
                                 \A t \in TaskIds : t > 1 => g[t - 1] <= g[t] } }
    /\ conn_lock = None
    /\ NoModelLoaded
    /\ StoreIdle
    /\ text = <<>> /\ emotions = None /\ safety_result = None
    /\ full_response = <<>> /\ augmented = None
    /\ fts_results = <<>> /\ vec_results = <<>> /\ limit = 0 /\ combined = <<>>
    /\ SearchIdle
    /\ BudgetIdle
    /\ ChatIdle

TaskStep(t) ==
    \/ TaskStart(t)
    \/ ConnLock(t)
    \/ ConnUnlock(t)
    \/ AwaitPoint(t)
    \/ ModelRead(t)
    \/ ModelReadCheck(t)
    \/ ModelWrite(t)
    \/ ModelLoad(t)
    \/ TaskResume(t)

NextTasks == \E t \in TaskIds : TaskStep(t)

\* A thread that can run is run, and a task that can be polled is polled.
SpecTasks == InitTasks /\ [][NextTasks]_vars /\ \A t \in TaskIds : WF_vars(TaskStep(t))

(***************************************************************************)
(* Properties of the safety gate.                                          *)
(***************************************************************************)

\* The characters of the inputs and of the patterns.
Alphabet ==
    {Upper[i] : i \in 1..Len(Upper)} \cup {Lower[i] : i \in 1..Len(Lower)}
        \cup Digits \cup {"_", "-", " ", "'"}

\* The letter pairs (upper, lower), as the set of characters equal up to case
\* to each character.
CaseClass ==
    [c \in Alphabet |->
        {c} \cup {Upper[i] : i \in {j \in 1..Len(Upper) : Lower[j] = c}}
            \cup {Lower[i] : i \in {j \in 1..Len(Upper) : Upper[j] = c}}]

\* Two strings that differ at most in case.
EqualIgnoringCase(s, t) ==
    /\ Len(s) = Len(t)
    /\ \A k \in 1..Len(s) : t[k] \in CaseClass[s[k]]

\* A whole-word occurrence of lit in s at position i, up to case.
OccursIgnoringCaseAt(lit, s, i) ==
    /\ i + Len(lit) - 1 <= Len(s)
    /\ \A k \in 1..Len(lit) : lit[k] \in CaseClass[s[i + k - 1]]
    /\ WordBoundary(s, i)
    /\ WordBoundary(s, i + Len(lit))

\* The text, compared case-insensitively, holds a whole-word occurrence of a
\* literal of some pattern of the set.
MatchesIgnoringCase(patterns, s) ==
    \E p \in 1..Len(patterns) : \E lit \in patterns[p] : \E i \in 1..Len(s) :
        OccursIgnoringCaseAt(lit, s, i)

\* Some supplied emotion with a risk label scores strictly above 0.5.
HasHighRiskEmotion(emo) ==
    /\ IsSome(emo)
    /\ \E i \in 1..Len(Unwrap(emo)) :
          /\ \E l \in RISK_EMOTIONS : EqualIgnoringCase(Unwrap(emo)[i].label, l)
          /\ Unwrap(emo)[i].score * 2 > 100

\* C2: every text that case-insensitively matches a crisis pattern gets
\* safe=false, level=Crisis and the crisis intervention text, whatever distress
\* patterns it also matches and whatever emotion scores are supplied.
C2_CrisisAlwaysBlocks ==
    (IsSome(safety_result) /\ MatchesIgnoringCase(CRISIS_KEYWORDS, text))
        => /\ Unwrap(safety_result).safe = FALSE
           /\ Unwrap(safety_result).level = "Crisis"
           /\ Unwrap(safety_result).intervention = Some(CRISIS_INTERVENTION)

\* A mixed-case crisis text that also matches a distress pattern, checked with a
\* high-risk emotion supplied.
C2_Witness ==
    /\ IsSome(safety_result)
    /\ MatchesIgnoringCase(CRISIS_KEYWORDS, text)
    /\ ~is_match(CRISIS_KEYWORDS, text)
    /\ MatchesIgnoringCase(DISTRESS_KEYWORDS, text)
    /\ HasHighRiskEmotion(emotions)
    /\ Unwrap(safety_result).level = "Crisis"

\* C3: a text matching no crisis pattern but a distress pattern gets safe=true,
\* level=Distress with the soft distress message whatever the emotions; emotions
\* never alter a verdict that the keywords alone make Crisis or Distress.
C3_KeywordDistressIgnoresEmotions ==
    IsSome(safety_result) =>
        LET crisis   == MatchesIgnoringCase(CRISIS_KEYWORDS, text)
            distress == MatchesIgnoringCase(DISTRESS_KEYWORDS, text)
            verdict  == Unwrap(safety_result)
            bare     == check_with_emotions(text, None)
        IN  /\ (~crisis /\ distress)
                  => /\ verdict.safe = TRUE
                     /\ verdict.level = "Distress"
                     /\ verdict.intervention = Some(DISTRESS_MESSAGE)
            /\ (crisis \/ distress) => verdict = bare
            /\ verdict # bare => (bare.level = "Safe" /\ verdict.level = "Distress")

\* A distress-only text checked with a high-risk emotion supplied.
C3_Witness ==
    /\ IsSome(safety_result)
    /\ ~MatchesIgnoringCase(CRISIS_KEYWORDS, text)
    /\ MatchesIgnoringCase(DISTRESS_KEYWORDS, text)
    /\ HasHighRiskEmotion(emotions)
    /\ Unwrap(safety_result) = DistressResult

\* C4: a text matching neither pattern set gets Distress (safe=true, the
\* emotion-aware message) exactly when some supplied risk emotion scores
\* strictly above 0.5, and safe=true, level=Safe, intervention=None otherwise.
C4_EmotionEscalation ==
    (/\ IsSome(safety_result)
     /\ ~MatchesIgnoringCase(CRISIS_KEYWORDS, text)
     /\ ~MatchesIgnoringCase(DISTRESS_KEYWORDS, text))
        => IF HasHighRiskEmotion(emotions)
           THEN /\ Unwrap(safety_result).safe = TRUE
                /\ Unwrap(safety_result).level = "Distress"
                /\ Unwrap(safety_result).intervention = Some(EMOTION_DISTRESS_MESSAGE)
           ELSE /\ Unwrap(safety_result).safe = TRUE
                /\ Unwrap(safety_result).level = "Safe"
                /\ Unwrap(safety_result).intervention = None

\* A keyword-free text whose only risk emotion sits exactly at 0.5, beside a
\* high-scoring non-risk emotion: the verdict stays Safe.
C4_Witness ==
    /\ IsSome(safety_result)
    /\ ~MatchesIgnoringCase(CRISIS_KEYWORDS, text)
    /\ ~MatchesIgnoringCase(DISTRESS_KEYWORDS, text)
    /\ Len(text) > 0
    /\ IsSome(emotions)
    /\ \E i \in 1..Len(Unwrap(emotions)) :
          Unwrap(emotions)[i].label \in RISK_EMOTIONS /\ Unwrap(emotions)[i].score = 50
    /\ \E i \in 1..Len(Unwrap(emotions)) :
          Unwrap(emotions)[i].label \notin RISK_EMOTIONS /\ Unwrap(emotions)[i].score > 50
    /\ Unwrap(safety_result) = SafeResult

\* Concatenation of a sequence of strings.
RECURSIVE Concat(_)
Concat(ss) == IF ss = <<>> THEN <<>> ELSE Head(ss) \o Concat(Tail(ss))

\* C5: augment_response returns the response followed by the support-resources
\* block when the level is Distress and the response unchanged when it is Safe
\* or Crisis; the response is always a prefix of the result, and chat_stream
\* emits exactly the appended suffix as one extra chunk (none when unchanged).
C5_AugmentAppendsSuffix ==
    IsSome(augmented) =>
        LET a     == Unwrap(augmented)
            level == Unwrap(safety_result).level
        IN  /\ level = "Distress"
                  => a.result = full_response \o << "\n\n" >> \o SUPPORT_RESOURCES
            /\ level \in {"Safe", "Crisis"} => a.result = full_response
            /\ Len(a.result) >= Len(full_response)
            /\ SubSeq(a.result, 1, Len(full_response)) = full_response
            /\ Len(a.emitted.chunks) = (IF level = "Distress" THEN 1 ELSE 0)
            /\ full_response \o Concat(a.emitted.chunks) = a.result
            /\ a.emitted.full_response = a.result

\* A Distress verdict on a non-empty response: the emitted chunk is the
\* separator and the resources block.
C5_Witness ==
    /\ IsSome(augmented)
    /\ Unwrap(safety_result).level = "Distress"
    /\ Len(full_response) = 2
    /\ Unwrap(augmented).emitted.chunks = << << "\n\n" >> \o SUPPORT_RESOURCES >>

(***************************************************************************)
(* Properties of the rank fusion.                                          *)
(***************************************************************************)

\* The 1-based position of id in a hit list of distinct ids, 0 when absent.
RankIn(results, id) ==
    IF id \in HitIds(results)
    THEN CHOOSE i \in 1..Len(results) : results[i][1] = id
    ELSE 0

\* 1/(60 + r) for an id at rank r of the channel, 0 for an id absent from it.
ChannelShare(results, id) ==
    IF RankIn(results, id) = 0 THEN Zero
    ELSE [num |-> 1, den |-> 60 + RankIn(results, id)]

\* The sum of the shares of the two channels.
ExpectedScore(id) ==
    RatAdd(ChannelShare(fts_results, id), ChannelShare(vec_results, id))

AllHitIds == HitIds(fts_results) \cup HitIds(vec_results)

InBoth(id) == id \in HitIds(fts_results) /\ id \in HitIds(vec_results)

\* The id sits in exactly one channel, at rank r.
InOneAtRank(id, r) ==
    /\ ~InBoth(id)
    /\ RankIn(fts_results, id) = r \/ RankIn(vec_results, id) = r

\* C6: the combined_score of every fused entity is the sum over the channels it
\* appears in of 1/(60 + r), r its 1-based rank there; a lone lexical rank-1
\* hit scores exactly 1/61; an entity in both channels scores strictly higher
\* than an entity in only one channel at the same rank.
C6_ScoreIsSumOfReciprocalRanks ==
    \A c \in 1..Len(combined) : \A j \in 1..Len(combined[c]) :
        LET e == combined[c][j]
        IN  /\ RatEq(e.score, ExpectedScore(e.id))
            /\ (RankIn(fts_results, e.id) = 1 /\ RankIn(vec_results, e.id) = 0)
                  => (e.score.num * 61 = e.score.den)
            /\ \A k \in 1..Len(combined[c]) : \A r \in 1..MaxHits + 1 :
                  (/\ InBoth(e.id)
                   /\ RankIn(fts_results, e.id) = r \/ RankIn(vec_results, e.id) = r
                   /\ InOneAtRank(combined[c][k].id, r))
                      => RatLess(combined[c][k].score, e.score)

\* A fused list holding a lone lexical rank-1 hit and an entity that sits in
\* both channels, at rank 1 of the vector channel.
C6_Witness ==
    /\ Len(combined) >= 1
    /\ \E j, k \in 1..Len(combined[1]) :
          /\ RankIn(fts_results, combined[1][k].id) = 1
          /\ RankIn(vec_results, combined[1][k].id) = 0
          /\ combined[1][k].score = [num |-> 1, den |-> 61]
          /\ InBoth(combined[1][j].id)
          /\ RankIn(vec_results, combined[1][j].id) = 1
          /\ RankIn(fts_results, combined[1][j].id) = 2

\* C7: the fused list is in non-increasing score order, holds each id at most
\* once, has length min(limit, number of distinct ids), is cut after sorting (no
\* omitted entity scores strictly higher than an included one), and each
\* result's fts_rank / vec_rank is Some(r) exactly when the id sits at 1-based
\* position r of that channel, never both None.
C7_SortedDistinctTruncated ==
    \A c \in 1..Len(combined) :
        LET R == combined[c]
        IN  /\ \A j \in 1..Len(R) - 1 : ~RatLess(R[j].score, R[j + 1].score)
            /\ \A j, k \in 1..Len(R) : j # k => R[j].id # R[k].id
            /\ Len(R) = Min(limit, Cardinality(AllHitIds))
            /\ \A id \in AllHitIds \ { R[j].id : j \in 1..Len(R) } :
                  \A j \in 1..Len(R) : ~RatLess(R[j].score, ExpectedScore(id))
            /\ \A j \in 1..Len(R) :
                  /\ R[j].id \in AllHitIds
                  /\ R[j].fts_rank = (IF RankIn(fts_results, R[j].id) = 0 THEN None
                                      ELSE Some(RankIn(fts_results, R[j].id)))
                  /\ R[j].vec_rank = (IF RankIn(vec_results, R[j].id) = 0 THEN None
                                      ELSE Some(RankIn(vec_results, R[j].id)))
                  /\ ~(R[j].fts_rank = None /\ R[j].vec_rank = None)

\* A fusion whose limit cuts the list: two results kept, one id omitted, one
\* kept result known to the vector channel only.
C7_Witness ==
    /\ Len(combined) >= 1
    /\ Len(combined[1]) = 2
    /\ limit = 2
    /\ Cardinality(AllHitIds) > 2
    /\ \E j \in 1..2 : combined[1][j].fts_rank = None /\ combined[1][j].vec_rank = Some(1)
    /\ RatLess(combined[1][2].score, combined[1][1].score)

\* C8: for fixed input lists and a fixed limit, two calls of
\* reciprocal_rank_fusion return the same entities in the same order, also when
\* scores tie and when the limit cuts through a group of tied entities.
C8_FusionDeterministic ==
    Len(combined) = 2 => combined[1] = combined[2]

(***************************************************************************)
(* Properties of the search without embedding.                             *)
(***************************************************************************)

\* The lexical hits: the index rows the archived filter lets through.
LexicalHits == FilterArchived(fts_index, archived, include_archived)

\* Two result lists with the same ids, order, scores and ranks.
SameResults(x, y) ==
    /\ x.ok = y.ok
    /\ x.err = y.err
    /\ Len(x.val) = Len(y.val)
    /\ \A i \in 1..Len(x.val) :
          /\ x.val[i].journal = y.val[i].journal
          /\ RatEq(x.val[i].score, y.val[i].score)
          /\ x.val[i].fts_rank = y.val[i].fts_rank
          /\ x.val[i].vec_rank = y.val[i].vec_rank

\* C9: without a query embedding the fusion is the lexical ranking: the results
\* are the first `limit` lexical hits in lexical order, the result at position r
\* has fts_rank = Some(r), score 1/(60 + r) and vec_rank = None, and
\* fts_only_search(query, limit) returns the same ids, order, scores and ranks as
\* hybrid_search(query, None, limit).
C9_NoEmbeddingIsLexicalRanking ==
    /\ (IsSome(hybrid_out) /\ Unwrap(hybrid_out).ok) =>
          LET R == Unwrap(hybrid_out).val
          IN  /\ Len(R) = Min(limit, Len(LexicalHits))
              /\ \A r \in 1..Len(R) :
                    /\ R[r].journal.id = LexicalHits[r]
                    /\ R[r].fts_rank = Some(r)
                    /\ R[r].vec_rank = None
                    /\ R[r].score.num * (60 + r) = R[r].score.den
    /\ (IsSome(hybrid_out) /\ IsSome(fts_only_out)) =>
          SameResults(Unwrap(hybrid_out), Unwrap(fts_only_out))

\* Both searches returned two results out of three lexical hits, an archived
\* match being filtered out.
C9_Witness ==
    /\ IsSome(hybrid_out) /\ IsSome(fts_only_out)
    /\ Unwrap(hybrid_out).ok
    /\ Len(Unwrap(hybrid_out).val) = 2
    /\ Len(Unwrap(fts_only_out).val) = 2
    /\ Len(fts_index) = 3
    /\ limit = 2
    /\ ~include_archived

(***************************************************************************)
(* Properties of the context budget fitter.                                *)
(***************************************************************************)

\* What the fitter charges for a list of kept history turns.
RECURSIVE HistoryCharge(_)
HistoryCharge(kept) ==
    IF kept = <<>> THEN 0 ELSE Head(kept).len + 20 + HistoryCharge(Tail(kept))

\* What the fitter charges for a list of kept results.
RECURSIVE RagCharge(_)
RagCharge(kept) ==
    IF kept = <<>> THEN 0
    ELSE (IF Head(kept).len < 500 THEN Head(kept).len ELSE 500) + 50 + RagCharge(Tail(kept))

\* C10: the characters charged for what fit_context_budget keeps (content
\* length + 20 per history turn, min(content length, 500) + 50 per result) never
\* exceed max_context_budget - system_prompt_budget in total, the history share
\* at most history_budget and the RAG share at most rag_budget.
C10_ChargedWithinBudget ==
    IsSome(fitted) =>
        LET f == Unwrap(fitted)
        IN  /\ HistoryCharge(f.fitted_history) <= HISTORY_BUDGET
            /\ RagCharge(f.fitted_rag) <= RAG_BUDGET
            /\ HistoryCharge(f.fitted_history) + RagCharge(f.fitted_rag)
                  <= MAX_CONTEXT_CHARS - SYSTEM_PROMPT_BUDGET

\* Both shares filled to the last character, a turn and a result being dropped.
C10_Witness ==
    /\ IsSome(fitted)
    /\ IsSome(chat_history) /\ IsSome(rag_context)
    /\ HistoryCharge(Unwrap(fitted).fitted_history) = 14000
    /\ RagCharge(Unwrap(fitted).fitted_rag) = 8000
    /\ Len(Unwrap(fitted).fitted_history) < Len(Unwrap(chat_history))
    /\ Len(Unwrap(fitted).fitted_rag) < Len(Unwrap(rag_context))

\* The last n elements of a list, in their order.
SuffixOf(list, n) == [i \in 1..n |-> list[Len(list) - n + i]]

\* The first n elements of a list, in their order.
PrefixOf(list, n) == [i \in 1..n |-> list[i]]

\* The history handed to the fitter, an absent history being no turns.
InputHistory == IF IsSome(chat_history) THEN Unwrap(chat_history) ELSE <<>>

\* The retrieval results handed to the fitter, absent results being none.
InputRag == IF IsSome(rag_context) THEN Unwrap(rag_context) ELSE <<>>

\* C11: the history kept by fit_context_budget is a contiguous suffix of the
\* input history in its original order (no older turn is kept while a more
\* recent one is dropped), the turn before the suffix is one that did not fit,
\* and the kept history is the same whatever the retrieval results are.
C11_HistoryIsNewestSuffix ==
    IsSome(fitted) =>
        LET kept == Unwrap(fitted).fitted_history
            n    == Len(kept)
        IN  /\ n <= Len(InputHistory)
            /\ kept = SuffixOf(InputHistory, n)
            /\ n < Len(InputHistory) =>
                  HistoryCharge(kept) + InputHistory[Len(InputHistory) - n].len + 20
                      > HISTORY_BUDGET
            /\ \A r \in { None, Some(<<>>), Some(ItemsOf(<< 450 >>)) } :
                  fit_context_budget(r, chat_history).fitted_history = kept

\* Two recent turns kept in chronological order, the oldest turn dropped, with
\* retrieval results present.
C11_Witness ==
    /\ IsSome(fitted)
    /\ IsSome(chat_history)
    /\ Len(Unwrap(chat_history)) = 3
    /\ Len(Unwrap(fitted).fitted_history) = 2
    /\ Unwrap(fitted).fitted_history[1].id = 2
    /\ Unwrap(fitted).fitted_history[2].id = 3
    /\ IsSome(rag_context) /\ Len(Unwrap(rag_context)) > 0

\* C12: the results kept by fit_context_budget are a prefix of the retrieval
\* results in their input order; the first result left out is one whose charge
\* would push the running total over min(remaining budget, rag_budget), and
\* nothing after it is kept.
C12_RagIsGreedyPrefix ==
    IsSome(fitted) =>
        LET kept   == Unwrap(fitted).fitted_rag
            n      == Len(kept)
            remain == (MAX_CONTEXT_CHARS - SYSTEM_PROMPT_BUDGET)
                          - HistoryCharge(Unwrap(fitted).fitted_history)
            budget == IF remain < RAG_BUDGET THEN remain ELSE RAG_BUDGET
        IN  /\ n <= Len(InputRag)
            /\ kept = PrefixOf(InputRag, n)
            /\ n < Len(InputRag) =>
                  RagCharge(kept) + RagCharge(<< InputRag[n + 1] >>) > budget

\* Packing stopped at a result that did not fit although a later, smaller
\* result would have fitted.
C12_Witness ==
    /\ IsSome(fitted)
    /\ IsSome(rag_context)
    /\ LET kept == Unwrap(fitted).fitted_rag
           n    == Len(kept)
       IN  /\ n > 0
           /\ n + 2 <= Len(InputRag)
           /\ RagCharge(kept) + RagCharge(<< InputRag[n + 2] >>) <= RAG_BUDGET

(***************************************************************************)
(* Properties of chat_stream.                                              *)
(***************************************************************************)

\* C1: when the verdict of the incoming message is Crisis (safe=false) the gate
\* short-circuits: no retrieval is run, no prompt is built, the language-model
\* stream is never started and nothing is persisted; the intervention text is
\* emitted as a chat-chunk and is followed by chat-done.
C1_CrisisShortCircuits ==
    (IsSome(chat.verdict) /\ ~Unwrap(chat.verdict).safe) =>
        /\ Unwrap(chat.verdict).level = "Crisis"
        /\ chat.retrievals = 0
        /\ chat.context = None
        /\ chat.prompt = None
        /\ chat.streams = 0
        /\ chat_messages = <<>>
        /\ events = << ChatChunkEvent(CRISIS_INTERVENTION), ChatDoneEvent(None) >>
        /\ chat_pc = "returned"
        /\ chat.ret = Some(Ok(<<>>))

\* A crisis message sent for a journal entry whose stored emotions were read.
C1_Witness ==
    /\ IsSome(chat.verdict)
    /\ Unwrap(chat.verdict).level = "Crisis"
    /\ IsSome(chat_in.journal_id)
    /\ IsSome(chat.emotions)
    /\ MatchesIgnoringCase(DISTRESS_KEYWORDS, chat_in.message)
    /\ Len(events) = 2
    /\ chat_pc = "returned"

(***************************************************************************)
(* Properties of vector_search.                                            *)
(***************************************************************************)

\* The call of vector_search that was observed, if one was.
VectorCall == IF IsSome(store_out) /\ Unwrap(store_out).op = "vector_search"
              THEN store_out ELSE None

\* The distances of the hits of entry id in the two neighbour lists of a call.
ObservedDistances(call, id) ==
    { call.entry_results.val[i][2] :
          i \in { j \in 1..Len(call.entry_results.val) : call.entry_results.val[j][1] = id } }
    \cup
    { call.chunk_results.val[i].distance :
          i \in { j \in 1..Len(call.chunk_results.val) :
                      call.chunk_results.val[j].journal_id = id } }

\* The parent entries of the hits of the two neighbour lists of a call.
ObservedIds(call) ==
    HitIds(call.entry_results.val)
        \cup { call.chunk_results.val[i].journal_id : i \in 1..Len(call.chunk_results.val) }

\* C13: vector_search merges the entry-level and the chunk-level neighbour list
\* so that every parent entry id appears at most once, with the minimum of the
\* distances of its entry-level hit and all of its chunk hits (the distance of
\* the chunk when only a chunk found it), in ascending distance order; with
\* include_archived it returns the first `limit` of the merged entries.
C13_MergeKeepsMinimumDistance ==
    (IsSome(VectorCall) /\ Unwrap(VectorCall).result.ok) =>
        LET call == Unwrap(VectorCall)
            res  == call.result.val
        IN  /\ \A i, j \in 1..Len(res) : i # j => res[i][1] # res[j][1]
            /\ \A i, j \in 1..Len(res) : i < j => res[i][2] <= res[j][2]
            /\ \A i \in 1..Len(res) :
                  /\ ObservedDistances(call, res[i][1]) # {}
                  /\ res[i][2] \in ObservedDistances(call, res[i][1])
                  /\ \A d \in ObservedDistances(call, res[i][1]) : res[i][2] <= d
            /\ call.include_archived =>
                  /\ Len(res) = Min(call.limit, Cardinality(ObservedIds(call)))
                  /\ \A id \in ObservedIds(call) \ HitIds(res) :
                        \A i \in 1..Len(res) :
                            \A d \in ObservedDistances(call, id) : res[i][2] <= d

\* A call that returned an entry found only through its chunks, two of them at
\* different distances, while the entry-level list held two other entries.
C13_Witness ==
    /\ IsSome(VectorCall)
    /\ Unwrap(VectorCall).result.ok
    /\ LET call == Unwrap(VectorCall)
           res  == call.result.val
       IN  /\ Len(call.entry_results.val) = 2
           /\ \E i \in 1..Len(res) :
                 /\ res[i][1] \notin HitIds(call.entry_results.val)
                 /\ ObservedDistances(call, res[i][1]) = { 1, 3 }
                 /\ res[i][2] = 1

\* The entries that have a row, are not archived, and have an entry-level
\* vector or a chunk with a vector.
LiveWithVector(db) ==
    { id \in db.journals \ db.archived :
          \/ id \in DOMAIN db.journal_embeddings
          \/ \E r \in db.embedding_chunks :
                r.journal_id = id /\ r.id \in DOMAIN db.chunk_embeddings }

\* C14: with include_archived=false, vector_search returns exactly min(limit, N)
\* results, N being the number of existing non-archived entries that have an
\* entry-level or chunk vector: it goes on pulling candidates until `limit`
\* results survive the filter or the candidates are exhausted.
C14_FilterFillsLimit ==
    (IsSome(VectorCall) /\ Unwrap(VectorCall).result.ok
        /\ ~Unwrap(VectorCall).include_archived) =>
        Len(Unwrap(VectorCall).result.val)
            = Min(Unwrap(VectorCall).limit, Cardinality(LiveWithVector(store)))

(***************************************************************************)
(* Properties of the searches over the store.                              *)
(***************************************************************************)

\* The search that was observed last, if the store was not written since.
SearchCall ==
    IF IsSome(store_out)
           /\ Unwrap(store_out).op \in { "journals_search", "fts_only_search", "hybrid_search" }
    THEN store_out ELSE None

\* The ids of the entries a search returned.
ReturnedIds(call) ==
    IF call.op = "journals_search"
    THEN { call.result.val[i].id : i \in 1..Len(call.result.val) }
    ELSE { call.result.val[i].journal.id : i \in 1..Len(call.result.val) }

\* The ids with an entry-level vector and no row in journals.
Orphans(db) == DOMAIN db.journal_embeddings \ db.journals

\* C15: a stored vector whose entry id has no row in the journal store never
\* makes a search fail: for either value of include_archived, hybrid_search
\* leaves the orphaned id out of its results and returns Ok.
C15_OrphanNeverFails ==
    (IsSome(SearchCall) /\ Unwrap(SearchCall).op = "hybrid_search"
        /\ Orphans(store) # {}) =>
        /\ Unwrap(SearchCall).result.ok
        /\ ReturnedIds(Unwrap(SearchCall)) \cap Orphans(store) = {}

\* The entries a search can reach: through the index, an entry vector or a
\* chunk vector.
Reachable(db) ==
    { db.fts_index[i] : i \in 1..Len(db.fts_index) }
        \cup DOMAIN db.journal_embeddings
        \cup { r.journal_id : r \in db.embedding_chunks }

\* C16: after any sequence of create, archive, unarchive, delete and embedding
\* generation, journals::search, fts_only_search and hybrid_search called with
\* include_archived=false return no entry whose archived flag is set, through
\* whichever channel the entry is reached; with include_archived=true the
\* archived matches are returned (all of them when the limit does not cut).
C16_ArchivedExcluded ==
    (IsSome(SearchCall) /\ Unwrap(SearchCall).result.ok) =>
        LET call == Unwrap(SearchCall)
        IN  /\ ~call.include_archived =>
                  ReturnedIds(call) \cap store.archived = {}
            /\ (call.include_archived /\ call.op # "hybrid_search") =>
                  ReturnedIds(call) =
                      HitIds(HitsOf(Truncate(store.fts_index, call.limit)))
            /\ (call.include_archived /\ call.op = "hybrid_search"
                    /\ Cardinality(Reachable(store)) <= call.limit) =>
                  { store.fts_index[i] : i \in 1..Len(store.fts_index) }
                      \subseteq ReturnedIds(call)

\* A hybrid search with include_archived=false that returned an entry, while an
\* archived entry matches the query, has an entry vector and has chunk vectors.
C16_Witness ==
    /\ IsSome(SearchCall)
    /\ LET call == Unwrap(SearchCall)
       IN  /\ call.op = "hybrid_search"
           /\ IsSome(call.embedding)
           /\ ~call.include_archived
           /\ call.result.ok
           /\ Len(call.result.val) = 1
           /\ \E id \in store.archived :
                 /\ id \in { store.fts_index[i] : i \in 1..Len(store.fts_index) }
                 /\ id \in DOMAIN store.journal_embeddings
                 /\ \E r \in store.embedding_chunks : r.journal_id = id

(***************************************************************************)
(* Properties of the calls with vectors of a wrong length.                 *)
(***************************************************************************)

\* The call of SpecDimension that was observed.
DimensionCall ==
    IF IsSome(store_out)
           /\ Unwrap(store_out).op \in { "store_embedding", "store_chunk_embeddings",
                                         "search_similar", "search_similar_chunks" }
              \cup (IF "dims" \in DOMAIN Unwrap(store_out) THEN { "hybrid_search" } ELSE {})
    THEN store_out ELSE None

\* C17: a vector whose length is not 384 is rejected with InvalidInput before
\* anything is stored or compared: store_embedding, store_chunk_embeddings,
\* search_similar and search_similar_chunks given such a vector return the
\* error and leave the vector store as it was, and hybrid_search returns that
\* error and not a result list.
C17_WrongLengthRejectedFirst ==
    (IsSome(DimensionCall)
        /\ \E i \in 1..Len(Unwrap(DimensionCall).dims) :
              Unwrap(DimensionCall).dims[i] # EMBEDDING_DIM) =>
        /\ Unwrap(DimensionCall).result = Err("InvalidInput")
        /\ store = Unwrap(DimensionCall).before

(***************************************************************************)
(* Properties of the lexical searches on a blank query.                    *)
(***************************************************************************)

\* The query of the search is empty or holds white space only.
BlankQuery == SplitWhitespace(query, <<>>) = <<>>

\* C18: for an empty or whitespace-only query, journals::search,
\* fts_only_search and the lexical channel of hybrid_search return Ok with an
\* empty result list, at once: no MATCH query reaches the full-text index
\* (whose answer to an empty expression is an error) and no entry is matched.
C18_BlankQueryReturnsEmpty ==
    BlankQuery =>
        /\ IsSome(store_out) => Unwrap(store_out).result = Ok(<<>>)
        /\ IsSome(fts_only_out) => Unwrap(fts_only_out) = Ok(<<>>)
        /\ IsSome(hybrid_out) => Unwrap(hybrid_out) = Ok(<<>>)

(***************************************************************************)
(* Properties of the searches and of the chat without the embedding model  *)
(* or without a retrieval.                                                 *)
(***************************************************************************)

\* The call of the hybrid_search command or of get_rag_context that was
\* observed.
DegradedCall ==
    IF IsSome(store_out)
           /\ Unwrap(store_out).op \in { "hybrid_search_command", "get_rag_context" }
    THEN store_out ELSE None

\* The embedding model gives no query embedding: it is not downloaded, it does
\* not load, or embed(query) fails.
Degraded(ml) == ~ml.downloaded \/ ~ml.loads \/ ~ml.embeds

\* Every pool.get() of the call got the connection.
Connected(call) == \A i \in 1..Len(call.locks) : call.locks[i]

\* The results of a list that are not the entry id.
RECURSIVE OtherThan(_, _)
OtherThan(results, id) ==
    IF results = <<>> THEN <<>>
    ELSE (IF Head(results).journal.id # id THEN << Head(results) >> ELSE <<>>)
             \o OtherThan(Tail(results), id)

\* C19: a degraded capability does not fail the operation.  Without a query
\* embedding (model not downloaded, not loading, or embed failing) the
\* hybrid_search command returns what the lexical-only search returns, and
\* get_rag_context returns the current entry, when it has a row, followed by
\* the lexical-only results (no result but the current entry carries a vector
\* rank); and a chat whose RAG retrieval or history retrieval failed goes on to
\* the language model, with no sources and no context in the prompt, or with no
\* history in it.  (When the lexical-only search itself fails, its error is
\* what the two searches return.)
C19_DegradedFallsBack ==
    /\ (IsSome(DegradedCall) /\ Degraded(Unwrap(DegradedCall).ml)
            /\ Connected(Unwrap(DegradedCall))) =>
          LET call    == Unwrap(DegradedCall)
              lexical == fts_only_search(store.fts_index, store.archived, call.query,
                                         call.limit, call.include_archived)
          IN  IF call.op = "hybrid_search_command"
              THEN call.result = lexical
              ELSE /\ ~lexical.ok => call.result = lexical
                   /\ lexical.ok => call.result.ok
                   /\ lexical.ok =>
                      LET first == IF IsSome(call.current)
                                          /\ Unwrap(call.current) \in store.journals
                                   THEN 1 ELSE 0
                          rest  == SubSeq(call.result.val, first + 1, Len(call.result.val))
                          lex   == IF IsSome(call.current)
                                   THEN OtherThan(lexical.val, Unwrap(call.current))
                                   ELSE lexical.val
                      IN  /\ Len(call.result.val) >= first
                          /\ first = 1 =>
                                call.result.val[1].journal.id = Unwrap(call.current)
                          /\ rest = Truncate(lex, call.limit - first)
                          /\ \A i \in 1..Len(rest) : rest[i].vec_rank = None
    /\ (chat.retrievals = 1 /\ chat.context = None) =>
          /\ chat_pc = "returned" =>
                \/ chat.streams = 1
                \/ IsSome(chat_in.journal_id) /\ chat.ret = Some(Err("Database"))
          /\ IsSome(chat.prompt) =>
                /\ Unwrap(chat.prompt).sources = <<>>
                /\ Unwrap(chat.prompt).system = <<>>
    /\ (IsSome(chat.prompt) /\ chat.history = None) =>
          /\ Unwrap(chat.prompt).history = <<>>
          /\ chat_pc = "returned" => chat.streams = 1

\* get_rag_context without a query embedding returned the current entry and a
\* lexical result after it; or a chat whose RAG retrieval and history retrieval
\* both failed, for an entry, has started the stream of the language model.
C19_Witness ==
    \/ /\ IsSome(DegradedCall)
       /\ LET call == Unwrap(DegradedCall)
          IN  /\ call.op = "get_rag_context"
              /\ call.ml.downloaded /\ ~call.ml.loads
              /\ call.current = Some("a")
              /\ call.result.ok
              /\ Len(call.result.val) = 2
              /\ call.result.val[2].journal.id = "b"
    \/ /\ chat.retrievals = 1 /\ chat.context = None /\ chat.history = None
       /\ IsSome(chat_in.journal_id)
       /\ chat_pc = "streaming"

(***************************************************************************)
(* Properties of the chunker.                                              *)
(***************************************************************************)

\* The call of chunk_text that was observed.
ChunkCall ==
    IF IsSome(store_out) /\ Unwrap(store_out).op = "chunk_text"
    THEN store_out ELSE None

\* C20: chunk_text returns one chunk, equal to the input, whenever
\* len(text) <= max_chars (the empty text included), and for every input it
\* returns a sequence of at least one chunk.
C20_ChunkerReturnsAChunk ==
    IsSome(ChunkCall) =>
        LET call == Unwrap(ChunkCall)
        IN  /\ ~call.result.panic
            /\ Len(call.result.chunks) >= 1
            /\ ByteLen(call.text) <= call.max_chars =>
                  call.result.chunks = << call.text >>

\* The sentences of a text as the loop of chunk_text takes them: the pieces
\* between the sentence boundaries, trimmed, the empty ones left out, each with
\* its closing punctuation.
RECURSIVE WithPunct(_)
WithPunct(pieces) ==
    IF pieces = <<>> THEN <<>>
    ELSE LET sentence == Trim(Head(pieces))
         IN  (IF sentence = <<>> THEN <<>>
              ELSE IF IsSentenceEnd(sentence[Len(sentence)]) THEN << sentence >>
              ELSE << sentence \o << "." >> >>)
                 \o WithPunct(Tail(pieces))

SentencesOf(input) == WithPunct(SentenceSplit(input, 1, <<>>))

\* C21: for a text longer than max_chars in which no sentence is longer than
\* max_chars, every chunk that chunk_text returns has at most
\* max_chars + overlap_chars bytes, the overlap seed, the separators and the
\* re-added punctuation counted.
C21_ChunkLengthBounded ==
    (IsSome(ChunkCall)
        /\ ~Unwrap(ChunkCall).result.panic
        /\ ByteLen(Unwrap(ChunkCall).text) > Unwrap(ChunkCall).max_chars
        /\ \A i \in 1..Len(SentencesOf(Unwrap(ChunkCall).text)) :
              ByteLen(SentencesOf(Unwrap(ChunkCall).text)[i]) <= Unwrap(ChunkCall).max_chars) =>
        \A j \in 1..Len(Unwrap(ChunkCall).result.chunks) :
            ByteLen(Unwrap(ChunkCall).result.chunks[j])
                <= Unwrap(ChunkCall).max_chars + Unwrap(ChunkCall).overlap_chars

\* The sentences of a text without the re-added punctuation: the trimmed,
\* non-empty pieces between the sentence boundaries.
RECURSIVE TrimmedPieces(_)
TrimmedPieces(pieces) ==
    IF pieces = <<>> THEN <<>>
    ELSE (IF Trim(Head(pieces)) = <<>> THEN <<>> ELSE << Trim(Head(pieces)) >>)
             \o TrimmedPieces(Tail(pieces))

\* The least position p >= from at which chunk holds sentence, or 0.
FindFrom(chunk, sentence, from) ==
    LET at == { p \in from..(Len(chunk) - Len(sentence) + 1) :
                   SubSeq(chunk, p, p + Len(sentence) - 1) = sentence }
    IN  IF at = {} THEN 0 ELSE CHOOSE p \in at : \A q \in at : p <= q

\* The sentences from i on appear whole in the chunks, in their order, the
\* search going on at position from of chunk j.
RECURSIVE AppearInOrder(_, _, _, _, _)
AppearInOrder(sentences, i, chunks, j, from) ==
    IF i > Len(sentences) THEN TRUE
    ELSE IF j > Len(chunks) THEN FALSE
    ELSE LET p == FindFrom(chunks[j], sentences[i], from)
         IN  IF p = 0 THEN AppearInOrder(sentences, i, chunks, j + 1, 1)
             ELSE AppearInOrder(sentences, i + 1, chunks, j, p + Len(sentences[i]))

\* C22: for a text longer than max_chars, every non-empty sentence of the text
\* appears whole in a chunk that chunk_text returns (none is dropped, none is
\* split across chunks), and the sentences appear across the chunks in the
\* order of the text.
C22_SentencesCovered ==
    (IsSome(ChunkCall)
        /\ ~Unwrap(ChunkCall).result.panic
        /\ ByteLen(Unwrap(ChunkCall).text) > Unwrap(ChunkCall).max_chars) =>
        AppearInOrder(TrimmedPieces(SentenceSplit(Unwrap(ChunkCall).text, 1, <<>>)), 1,
                      Unwrap(ChunkCall).result.chunks, 1, 1)

\* A call on a text of two sentences that returned two chunks, the second
\* sentence longer than max_chars.
C22_Witness ==
    /\ IsSome(ChunkCall)
    /\ LET call == Unwrap(ChunkCall)
       IN  /\ ~call.result.panic
           /\ ByteLen(call.text) > call.max_chars
           /\ Len(TrimmedPieces(SentenceSplit(call.text, 1, <<>>))) = 2
           /\ Len(call.result.chunks) = 2
           /\ ByteLen(TrimmedPieces(SentenceSplit(call.text, 1, <<>>))[2]) > call.max_chars

(***************************************************************************)
(* Properties of the chunk vectors.                                        *)
(***************************************************************************)

\* The rows of embedding_chunks of an entry.
ChunkRowsOf(db, id) == { r \in db.embedding_chunks : r.journal_id = id }

\* C23: the chunks of an entry are replaced as a set.  After a
\* store_chunk_embeddings that succeeded the chunks stored for the entry are the
\* new ones and no others, and at all times every vector of chunk_embeddings
\* belongs to a chunk that has a row: no vector of a replaced or deleted chunk
\* stays in the pool.
C23_ChunksReplacedAsSet ==
    /\ DOMAIN store.chunk_embeddings \subseteq { r.id : r \in store.embedding_chunks }
    /\ (IsSome(DimensionCall)
           /\ Unwrap(DimensionCall).op = "store_chunk_embeddings"
           /\ Unwrap(DimensionCall).result.ok) =>
          \A id \in IdsOf(DimensionIds) :
              ChunkRowsOf(store, id) # ChunkRowsOf(Unwrap(DimensionCall).before, id) =>
                  /\ Cardinality(ChunkRowsOf(store, id)) = Len(Unwrap(DimensionCall).dims)
                  /\ { r.chunk_index : r \in ChunkRowsOf(store, id) }
                         = 0..(Len(Unwrap(DimensionCall).dims) - 1)
                  /\ ChunkRowsOf(store, id) \cap ChunkRowsOf(Unwrap(DimensionCall).before, id) = {}

(***************************************************************************)
(* Properties of the events and of the persisted message of chat_stream.   *)
(***************************************************************************)

\* The positions of the terminal events (chat-done, chat-error) emitted.
TerminalPositions ==
    { i \in 1..Len(events) : events[i].name \in { "chat-done", "chat-error" } }

\* C24: a chat_stream invocation emits chat-chunk events and then one
\* terminal event.  When it has returned it has emitted exactly one of
\* chat-done and chat-error, also when the stream of the model ended without a
\* chunk marked done and when a database access failed; at no time is an event
\* emitted after a terminal one.
C24_OneTerminalEvent ==
    /\ Cardinality(TerminalPositions) <= 1
    /\ TerminalPositions \subseteq { Len(events) }
    /\ chat_pc = "returned" => Cardinality(TerminalPositions) = 1

(***************************************************************************)
(* Properties of the built prompt.                                         *)
(***************************************************************************)

\* The call of build_prompt_with_sources that was observed.
PromptCall ==
    IF IsSome(store_out) /\ Unwrap(store_out).op = "build_prompt_with_sources"
    THEN store_out ELSE None

\* C25: every SourceReference that build_prompt_with_sources returns refers to
\* an entry whose snippet is in the system message of the prompt it built, for
\* any number of results that fit the budget.
C25_SourcesAreInPrompt ==
    IsSome(PromptCall) =>
        LET prompt == Unwrap(PromptCall).prompt
        IN  \A i \in 1..Len(prompt.sources) :
                \E j \in 1..Len(prompt.system) : prompt.system[j] = prompt.sources[i]

\* The total length of the contents of the messages of a prompt.
PromptChars(messages) == SumOf([i \in 1..Len(messages) |-> messages[i].len])

\* C30: the prompt stays within the context budget: for every user message,
\* retrieval list and history, the contents of the returned messages (the
\* system prompt with its snippets, the kept history and the user message)
\* have at most MAX_CONTEXT_CHARS characters in total.
C30_PromptWithinContextBudget ==
    IsSome(PromptCall) => PromptChars(Unwrap(PromptCall).messages) <= MAX_CONTEXT_CHARS

(***************************************************************************)
(* Properties of the persisted assistant message.                          *)
(***************************************************************************)

\* The payloads of the chat-chunk events among evs, joined in order.
RECURSIVE ChunkPayloads(_)
ChunkPayloads(evs) ==
    IF evs = <<>> THEN <<>>
    ELSE (IF Head(evs).name = "chat-chunk" THEN Head(evs).chunk ELSE <<>>)
         \o ChunkPayloads(Tail(evs))

EventNames == { events[i].name : i \in 1..Len(events) }

\* C29: chat_stream inserts the assistant message at most once, only with a
\* journal_id and only after the chunk marked done; its content is the
\* chat-chunk payloads of the invocation joined in order, and nothing is
\* inserted after a stream error or on a Crisis verdict.
C29_AssistantPersistedOnce ==
    /\ Len(chat_messages) <= 1
    /\ chat_messages # <<>> =>
          /\ IsSome(chat_in.journal_id)
          /\ chat_messages[1].journal_id = Unwrap(chat_in.journal_id)
          /\ chat_messages[1].role = "assistant"
          /\ "chat-done" \in EventNames
          /\ "chat-error" \notin EventNames
          /\ IsSome(chat.verdict) /\ Unwrap(chat.verdict).level # "Crisis"
          /\ chat_messages[1].content = ChunkPayloads(events)
    /\ (chat_pc = "streaming" \/ "chat-done" \notin EventNames) => chat_messages = <<>>

\* A distress message with a journal_id whose two deltas and safety suffix
\* were emitted and persisted.
C29_Witness ==
    /\ chat_messages # <<>>
    /\ Unwrap(chat.verdict).level = "Distress"
    /\ Cardinality({ i \in 1..Len(events) : events[i].name = "chat-chunk" }) = 3

(***************************************************************************)
(* Properties of the background embedding generation.                      *)
(***************************************************************************)

\* The vectors of the tables.
VectorStore(db) ==
    [journal_embeddings |-> db.journal_embeddings,
     embedding_chunks   |-> db.embedding_chunks,
     chunk_embeddings   |-> db.chunk_embeddings]

\* Entry id has its entry vector and, when its content is cut into several
\* chunks, chunk vectors.
FullyGenerated(db, id) ==
    /\ has_embedding(db, id)
    /\ ChunkCount(ContentOf(id)) > 1 =>
          \E r \in db.embedding_chunks :
              r.journal_id = id /\ r.id \in DOMAIN db.chunk_embeddings

\* C28: a run of generate_embedding_inner for a fully generated entry leaves
\* the vectors as they were, and a run that returns Ok without having skipped a
\* chunk leaves the entry fully generated, also when an earlier run stored the
\* entry vector and ended before the chunk vectors.
C28_RetryCompletesGeneration ==
    Running("returned") =>
       /\ FullyGenerated(Run.before, Run.id) => VectorStore(store) = VectorStore(Run.before)
       /\ (Run.ret = Some(Ok(<<>>)) /\ Run.skipped = {}) => FullyGenerated(store, Run.id)

(***************************************************************************)
(* Properties of the model cache.                                          *)
(***************************************************************************)

\* The tasks that returned from get_embedding_model with Ok.
ReturnedOk == { t \in TaskIds : tasks[t].status = "done" /\ tasks[t].ret # None
                                  /\ Unwrap(tasks[t].ret).ok }

\* C27: for any interleaving of calls of get_embedding_model at most one load
\* succeeds, the callers that return Ok hold the same handle, the one in the
\* cache; while no load has succeeded the cache is empty, and a call returns
\* Err only after a load of its own, so that a call after a failed load loads
\* again.
C27_LoadedOnceAndShared ==
    /\ loads["embedding"] <= 1
    /\ Cardinality({ t \in TaskIds : tasks[t].attempt = "ok" }) = loads["embedding"]
    /\ \A t \in ReturnedOk : model_cache["embedding"] = Some(Unwrap(tasks[t].ret).val)
    /\ \A t1 \in ReturnedOk : \A t2 \in ReturnedOk :
          Unwrap(tasks[t1].ret).val = Unwrap(tasks[t2].ret).val
    /\ loads["embedding"] = 0 => model_cache["embedding"] = None
    /\ \A t \in TaskIds :
          (tasks[t].status = "done" /\ ~Unwrap(tasks[t].ret).ok) => tasks[t].attempt = "failed"

\* One call failed to load, a later one loaded, and a third got the handle
\* from the cache without loading.
C27_Witness ==
    /\ \A t \in TaskIds : tasks[t].status = "done"
    /\ \E t1 \in TaskIds : \E t2 \in TaskIds : \E t3 \in TaskIds :
          /\ tasks[t1].attempt = "failed"
          /\ tasks[t2].attempt = "ok"
          /\ tasks[t3].attempt = "none" /\ tasks[t3].ret = tasks[t2].ret

(***************************************************************************)
(* Properties of the locks of the tasks.                                   *)
(***************************************************************************)

\* Task t holds the guard of the connection or a write guard of a model.
HoldsGuard(t) ==
    \/ conn_lock = Some(t)
    \/ \E m \in Models : model_lock[m].writer = Some(t)

\* The thread of task t is blocked in pool.get().
BlockedOnConnection(t) == At(t, "running", "lock") /\ conn_lock # None

\* C26: no task is suspended at an await while it holds the guard of the
\* connection or a write guard of the model cache, and no task stays blocked
\* on the connection lock forever.
C26_NoGuardAcrossAwait ==
    /\ [](\A t \in TaskIds : tasks[t].status = "suspended" => ~HoldsGuard(t))
    /\ \A t \in TaskIds : []<>(~BlockedOnConnection(t))

\* One task holds the connection, a second is blocked on it and keeps its
\* worker thread, a third is suspended at an await.
C26_Witness ==
    \E t1 \in TaskIds : \E t2 \in TaskIds : \E t3 \in TaskIds :
        /\ conn_lock = Some(t1)
        /\ BlockedOnConnection(t2)
        /\ tasks[t3].status = "suspended"

====
